---------------------------- MODULE Spec2Model ----------------------------
(***************************************************************************)
(* Session synchronisation engine of the cinch-web frontend:               *)
(*   - applyMessage   (lib/protocol.ts)    the protocol reducer            *)
(*   - resolveEntries (components)         the entry resolver              *)
(*   - useAgentSocket (hooks)              the connection manager          *)
(*   - ConnectionStatus (components)       the presentation state machine  *)
(*                                                                         *)
(* Conventions.  A JavaScript value "T | null" is a sequence of length at  *)
(* most one (Null, Some(v)).  An AgentEntry is a record with exactly one   *)
(* key, as in lib/types.ts, so that  "TodoUpdate" in e  is                 *)
(*  "TodoUpdate" \in DOMAIN e.  context_pct is counted in hundredths.      *)
(* Strings are TLA+ strings, concatenated with \o.                         *)
(***************************************************************************)
EXTENDS Integers, Sequences, FiniteSets, TLC

VARIABLES
  \* ---- reducer (useState<AgentState>) and its observers
  state,          \* the published AgentState
  lastMsg,        \* observer: the message applied by the latest reducer step
  nmsgs,          \* observer: number of reducer steps taken
  sawSnapshot,    \* observer: a snapshot has been applied
  sawFinished,    \* observer: a finished message has been applied
  firstTodoAt,    \* observer: index at which the first todo_update appended (0: none yet)
  lastTodo,       \* observer: content of the latest todo_update
  snapshotsClean, \* observer: every snapshot applied carried at most one TodoUpdate
  prevState,      \* observer: the state the latest reducer step started from
  runBase,        \* observer: streamingBuffer when the current run of text_delta began
  deltaRun,       \* observer: the deltas of the current run of text_delta, in arrival order
  pairing,        \* observer: per tool name, what has arrived since its tool_executing
  \* ---- entry resolver (resolveEntries)
  rawEntries,     \* the AgentEntry[] handed to resolveEntries
  resolved,       \* the ResolvedEntry[] it returned
  resolverRan,    \* resolveEntries has returned
  \* ---- connection manager (useAgentSocket)
  mounted,        \* "rendered" (hooks initialised), "mounted" (effects ran), "unmounted"
  connected,      \* useState(false)
  wsRef,          \* wsRef.current: a socket id, 0 for null
  retryDelayRef,  \* retryDelayRef.current, ms
  cancelled,      \* per run of the effect: its closure variable `cancelled`
  timeoutPending, \* per run of the effect: its timeoutId names a timer not yet fired or cleared
  socks,          \* every WebSocket created so far: [readyState, run]
  sent,           \* frames handed to ws.send, in order
  ncalls,         \* observer: calls of sendAnswer / sendChat / sendQuit
  expectedSent,   \* observer: the commands called while the connection was open
  failures,       \* observer: reconnections scheduled since the latest open event
  lastDelay,      \* observer: delay of the reconnection scheduled most recently (0: none)
  everLost,       \* observer: a socket that had opened has closed
  socketCap,      \* bound of the exploration: sockets that may be created
  frameCap,       \* bound of the exploration: messages that may be delivered
  \* ---- observers of the callbacks
  latePublished,  \* a callback of a socket of a torn-down run changed state or connected
  answered,       \* an answer to the outstanding question has been transmitted
  renderThrew,    \* the state updater threw while React was rendering
  nbad,           \* frames delivered that are not messages of the protocol
  closeMarked,    \* every close event so far left the published connected flag false
  delivered,      \* the messages delivered by the sockets, in arrival order
  lastCall,       \* the latest command called, with what it found and what it left
  \* ---- connection-status presentation (ConnectionStatus)
  phaseRef,         \* phaseRef.current
  prevConnectedRef, \* prevConnectedRef.current
  seenConnected,    \* the `connected` value of the render whose effect ran last
  timer,            \* the 2000 ms timer is pending
  exitTimer,        \* the 2350 ms timer is pending
  phaseTrail,       \* observer: the phases set since the latest regain, with the ms elapsed
  lostFrom          \* observer: the phases in which a loss of the connection was seen

rvars == <<state, lastMsg, nmsgs, sawSnapshot, sawFinished, firstTodoAt, lastTodo, snapshotsClean,
           prevState, runBase, deltaRun, pairing>>

evars == <<rawEntries, resolved, resolverRan>>

cvars == <<mounted, connected, wsRef, retryDelayRef, cancelled, timeoutPending, socks,
           sent, ncalls, expectedSent, failures, lastDelay, everLost, socketCap, frameCap>>

ovars == <<latePublished, answered, renderThrew, nbad, closeMarked, delivered, lastCall>>

pvars == <<phaseRef, prevConnectedRef, seenConnected, timer, exitTimer, phaseTrail, lostFrom>>

vars == <<rvars, evars, cvars, ovars, pvars>>

Null == <<>>
Undefined == <<>>
Some(v) == <<v>>

\* ---- bounds
MaxMsgs == 3          \* messages applied in one run of the reducer
MaxEntries == 3       \* length of the raw entry logs given to the resolver
MaxSockets == 6       \* WebSockets created in one page lifetime
MaxRuns == 2          \* runs of the useAgentSocket effect (mount and re-runs)
MaxCalls == 1         \* calls of the outbound commands
MaxFrames == 1        \* well-formed frames delivered over the sockets
MaxSessionSockets == 2  \* WebSockets created in a session that exchanges frames
MaxBadFrames == 1     \* frames delivered that are not messages of the protocol
MaxFoldFrames == 2    \* messages delivered in a session whose frames are folded

\* ------------------------------------------------------------------------
\* lib/types.ts
\* ------------------------------------------------------------------------
INITIAL_STATE ==
  [ phase |-> "Connecting...",
    round |-> 0,
    maxRounds |-> 0,
    contextPct |-> 0,
    model |-> "",
    cycle |-> 0,
    entries |-> <<>>,
    streamingBuffer |-> "",
    reasoningBuffer |-> "",
    logs |-> <<>>,
    running |-> TRUE,
    nextCycleSecs |-> Null,
    activeQuestion |-> Null,
    extension |-> Null,
    totalPromptTokens |-> 0,
    totalCompletionTokens |-> 0 ]

\* AgentEntry constructors (one key per entry)
TextEntry(t) == [Text |-> t]
ToolExecutingEntry(n, a) == [ToolExecuting |-> [name |-> n, arguments |-> a]]
ToolResultEntry(n, r, e) == [ToolResult |-> [name |-> n, result |-> r, is_error |-> e]]
UserMessageEntry(m) == [UserMessage |-> m]
TodoUpdateEntry(c) == [TodoUpdate |-> c]

\* ------------------------------------------------------------------------
\* lib/protocol.ts  -- applyMessage
\* ------------------------------------------------------------------------

\* JSON.stringify({ reasoning: text })  (text without characters to escape)
StringifyReasoning(text) == "{\"reasoning\":\"" \o text \o "\"}"

\* entries.findIndex((e) => "TodoUpdate" in e), 1-based; 0 when JavaScript gives -1
FindTodoIndex(entries) ==
  LET hits == {i \in 1..Len(entries) : "TodoUpdate" \in DOMAIN entries[i]}
  IN  IF hits = {} THEN 0 ELSE CHOOSE i \in hits : \A j \in hits : i <= j

\* (variant: every synthetic line is logged at level Info)
SyntheticLogAlwaysInfo(now, level, message) ==
  [time |-> now, level |-> "Info", message |-> message]

SyntheticLog(now, level, message) == [time |-> now, level |-> level, message |-> message]

\* (variant: a full replace that forgets to carry the cumulative counters forward)
ApplySnapshotDropsCounters(prev, msg) ==
  LET s == msg.data IN
  [ phase |-> s.phase, round |-> s.round, maxRounds |-> s.max_rounds,
    contextPct |-> s.context_pct, model |-> s.model, cycle |-> s.cycle,
    entries |-> s.agent_output, streamingBuffer |-> s.streaming_buffer,
    reasoningBuffer |-> "", logs |-> s.logs, running |-> s.running,
    nextCycleSecs |-> s.next_cycle_secs, activeQuestion |-> s.active_question,
    extension |-> s.extension, totalPromptTokens |-> 0, totalCompletionTokens |-> 0 ]

ApplySnapshot(prev, msg) ==
  LET s == msg.data IN
  [ phase |-> s.phase,
    round |-> s.round,
    maxRounds |-> s.max_rounds,
    contextPct |-> s.context_pct,
    model |-> s.model,
    cycle |-> s.cycle,
    entries |-> s.agent_output,
    streamingBuffer |-> s.streaming_buffer,
    reasoningBuffer |-> "",
    logs |-> s.logs,
    running |-> s.running,
    nextCycleSecs |-> s.next_cycle_secs,
    activeQuestion |-> s.active_question,
    extension |-> s.extension,
    totalPromptTokens |-> prev.totalPromptTokens,
    totalCompletionTokens |-> prev.totalCompletionTokens ]

\* (variant: the completed text is appended but the partial buffer is kept)
ApplyTextKeepsBuffer(prev, msg) ==
  [prev EXCEPT !.entries = Append(prev.entries, TextEntry(msg.text))]

ApplyText(prev, msg) ==
  [prev EXCEPT !.entries = Append(prev.entries, TextEntry(msg.text)),
               !.streamingBuffer = ""]

ApplyTextDelta(prev, msg) ==
  [prev EXCEPT !.streamingBuffer = prev.streamingBuffer \o msg.delta]

\* (variant: plain append, as for every other entry-producing message)
ApplyTodoUpdateAlwaysAppends(prev, msg) ==
  [prev EXCEPT !.entries = Append(prev.entries, TodoUpdateEntry(msg.content))]

\* (variant: the old TodoUpdate is dropped and the new one goes to the end of the log)
ApplyTodoUpdateMovesToEnd(prev, msg) ==
  LET keep == SelectSeq(prev.entries, LAMBDA e : "TodoUpdate" \notin DOMAIN e) IN
  [prev EXCEPT !.entries = Append(keep, TodoUpdateEntry(msg.content))]

ApplyTodoUpdate(prev, msg) ==
  LET idx == FindTodoIndex(prev.entries) IN
  IF idx >= 1
    THEN [prev EXCEPT !.entries = [prev.entries EXCEPT ![idx] = TodoUpdateEntry(msg.content)]]
    ELSE [prev EXCEPT !.entries = Append(prev.entries, TodoUpdateEntry(msg.content))]

\* (variant: the counters are set to the amounts of the latest request)
ApplyTokenUsageOverwrites(prev, msg) ==
  [prev EXCEPT !.totalPromptTokens = msg.prompt_tokens,
               !.totalCompletionTokens = msg.completion_tokens]

ApplyTokenUsage(prev, msg) ==
  [prev EXCEPT !.totalPromptTokens = prev.totalPromptTokens + msg.prompt_tokens,
               !.totalCompletionTokens = prev.totalCompletionTokens + msg.completion_tokens]

\* (variant: only the ToolExecuting half of the pair is appended)
ApplyReasoningUnpaired(prev, msg) ==
  [prev EXCEPT !.entries = Append(prev.entries,
                             ToolExecutingEntry("think", StringifyReasoning(msg.text))),
               !.reasoningBuffer = ""]

\* (variant: a complete reasoning clears the text buffer as well)
ApplyReasoningClearsBoth(prev, msg) ==
  [prev EXCEPT !.entries = prev.entries \o
                    << ToolExecutingEntry("think", StringifyReasoning(msg.text)),
                       ToolResultEntry("think", "ok", FALSE) >>,
               !.reasoningBuffer = "",
               !.streamingBuffer = ""]

ApplyReasoning(prev, msg) ==
  [prev EXCEPT !.entries = prev.entries \o
                    << ToolExecutingEntry("think", StringifyReasoning(msg.text)),
                       ToolResultEntry("think", "ok", FALSE) >>,
               !.reasoningBuffer = ""]

\* (variant: a question asked while one is outstanding is ignored)
ApplyQuestionKeepsOutstanding(prev, msg) ==
  IF prev.activeQuestion # Null THEN prev
  ELSE [prev EXCEPT !.activeQuestion =
          Some([question |-> msg.question, remaining_secs |-> Null, done |-> FALSE])]

ApplyQuestion(prev, msg) ==
  [prev EXCEPT !.activeQuestion =
     Some([question |-> msg.question, remaining_secs |-> Null, done |-> FALSE])]

\* (variant: finishing also dismisses the outstanding question)
ApplyFinishedClearsQuestion(prev, msg) ==
  [prev EXCEPT !.running = FALSE, !.phase = "Finished", !.activeQuestion = Null]

ApplyFinished(prev, msg) == [prev EXCEPT !.running = FALSE, !.phase = "Finished"]

\* (variant: the new mapping is merged over the old one)
ApplyExtensionMerges(prev, msg) ==
  IF prev.extension = Null THEN [prev EXCEPT !.extension = Some(msg.data)]
  ELSE LET old == prev.extension[1] IN
       [prev EXCEPT !.extension =
          Some([k \in DOMAIN old \cup DOMAIN msg.data |->
                  IF k \in DOMAIN msg.data THEN msg.data[k] ELSE old[k]])]

ApplyExtension(prev, msg) == [prev EXCEPT !.extension = Some(msg.data)]

\* (variant: a cache hit is logged as a finished call, with a result entry)
ApplyToolCacheHitWithResult(prev, msg) ==
  [prev EXCEPT !.entries = prev.entries \o
                    << ToolExecutingEntry(msg.name \o " (cached)", msg.arguments),
                       ToolResultEntry(msg.name \o " (cached)", "cached", FALSE) >>]

ApplyToolCacheHit(prev, msg) ==
  [prev EXCEPT !.entries = Append(prev.entries,
                             ToolExecutingEntry(msg.name \o " (cached)", msg.arguments))]

\* (variant: an unrecognised discriminator reinitialises the session)
ApplyDefaultResets(prev, msg) == INITIAL_STATE

\* default: return prev
ApplyDefault(prev, msg) == prev

\* `now` is the reading of  new Date().toLocaleTimeString()  taken by the call
applyMessage(prev, msg, now) ==
  CASE msg.type = "snapshot" -> ApplySnapshot(prev, msg)
    [] msg.type = "text" -> ApplyText(prev, msg)
    [] msg.type = "text_delta" -> ApplyTextDelta(prev, msg)
    [] msg.type = "tool_executing" ->
         [prev EXCEPT !.phase = "Tool: " \o msg.name,
                      !.entries = Append(prev.entries,
                                         ToolExecutingEntry(msg.name, msg.arguments))]
    [] msg.type = "tool_result" ->
         [prev EXCEPT !.entries = Append(prev.entries,
                                    ToolResultEntry(msg.name, msg.result, msg.is_error))]
    [] msg.type = "reasoning" -> ApplyReasoning(prev, msg)
    [] msg.type = "reasoning_delta" ->
         [prev EXCEPT !.reasoningBuffer = prev.reasoningBuffer \o msg.delta]
    [] msg.type = "round" ->
         [prev EXCEPT !.round = msg.round,
                      !.maxRounds = msg.max_rounds,
                      !.contextPct = msg.context_pct]
    [] msg.type = "phase" -> [prev EXCEPT !.phase = msg.phase]
    [] msg.type = "question" -> ApplyQuestion(prev, msg)
    [] msg.type = "question_dismissed" -> [prev EXCEPT !.activeQuestion = Null]
    [] msg.type = "finished" -> ApplyFinished(prev, msg)
    [] msg.type = "log" -> [prev EXCEPT !.logs = Append(prev.logs, msg.line)]
    [] msg.type = "extension" -> ApplyExtension(prev, msg)
    [] msg.type = "user_message" ->
         [prev EXCEPT !.entries = Append(prev.entries, UserMessageEntry(msg.message))]
    [] msg.type = "token_usage" -> ApplyTokenUsage(prev, msg)
    [] msg.type = "tool_calls_received" ->
         [prev EXCEPT !.phase = ToString(msg.count) \o " tool call(s)"]
    [] msg.type = "tool_cache_hit" -> ApplyToolCacheHit(prev, msg)
    [] msg.type = "model_routed" -> [prev EXCEPT !.model = msg.model]
    [] msg.type = "eviction" ->
         [prev EXCEPT !.logs = Append(prev.logs, SyntheticLog(now, "Info",
             "Context eviction: freed " \o ToString(msg.freed_chars) \o " chars from "
               \o ToString(msg.evicted_count) \o " tool result(s)"))]
    [] msg.type = "compaction" ->
         [prev EXCEPT !.logs = Append(prev.logs, SyntheticLog(now, "Info",
             "Context compaction #" \o ToString(msg.compaction_number) \o " completed"))]
    [] msg.type = "checkpoint_saved" ->
         [prev EXCEPT !.logs = Append(prev.logs, SyntheticLog(now, "Debug",
             "Checkpoint saved at round " \o ToString(msg.round) \o ": " \o msg.path))]
    [] msg.type = "checkpoint_resumed" ->
         [prev EXCEPT !.logs = Append(prev.logs, SyntheticLog(now, "Info",
             "Resumed from checkpoint at round " \o ToString(msg.round)))]
    [] msg.type = "empty_response" ->
         [prev EXCEPT !.phase = "Retrying (" \o ToString(msg.attempt) \o "/"
                                  \o ToString(msg.max_retries) \o ")",
                      !.logs = Append(prev.logs, SyntheticLog(now, "Warn",
             "Empty API response at round " \o ToString(msg.round) \o ", retrying ("
               \o ToString(msg.attempt) \o "/" \o ToString(msg.max_retries) \o ")"))]
    [] msg.type = "approval_required" ->
         [prev EXCEPT !.logs = Append(prev.logs, SyntheticLog(now, "Info",
             "Approval required for tool: " \o msg.name))]
    [] msg.type = "todo_update" -> ApplyTodoUpdate(prev, msg)
    [] OTHER -> ApplyDefault(prev, msg)


\* ------------------------------------------------------------------------
\* components -- resolveEntries
\* ------------------------------------------------------------------------

\* (variant: the look-ahead accepts a ToolResult of any name)
NextIsResultAnyName(entries, i) ==
  /\ i + 1 <= Len(entries)
  /\ "ToolResult" \in DOMAIN entries[i + 1]

\* next && "ToolResult" in next && next.ToolResult.name === entry.ToolExecuting.name
NextIsMatchingResult(entries, i) ==
  /\ i + 1 <= Len(entries)
  /\ "ToolResult" \in DOMAIN entries[i + 1]
  /\ entries[i + 1].ToolResult.name = entries[i].ToolExecuting.name

\* (variant: a ToolResult is never recognised as already shown)
PrevNeverMatches(entries, i) == FALSE

\* (variant: the look-behind accepts a ToolExecuting of any name)
PrevIsExecutingAnyName(entries, i) ==
  /\ i - 1 >= 1
  /\ "ToolExecuting" \in DOMAIN entries[i - 1]

\* prev && "ToolExecuting" in prev && prev.ToolExecuting.name === entry.ToolResult.name
PrevIsMatchingExecuting(entries, i) ==
  /\ i - 1 >= 1
  /\ "ToolExecuting" \in DOMAIN entries[i - 1]
  /\ entries[i - 1].ToolExecuting.name = entries[i].ToolResult.name

\* what one iteration of the loop pushes for entries[i] (<<>>: nothing)
ResolveAt(entries, i) ==
  LET entry == entries[i] IN
  IF "UserMessage" \in DOMAIN entry
    THEN <<[type |-> "user", message |-> entry.UserMessage]>>
  ELSE IF "Text" \in DOMAIN entry
    THEN <<[type |-> "text", text |-> entry.Text]>>
  ELSE IF "ToolExecuting" \in DOMAIN entry
    THEN LET paired == NextIsMatchingResult(entries, i) IN
         <<[type |-> "tool",
            name |-> entry.ToolExecuting.name,
            arguments |-> entry.ToolExecuting.arguments,
            result |-> IF paired THEN Some(entries[i + 1].ToolResult.result) ELSE Undefined,
            isError |-> IF paired THEN Some(entries[i + 1].ToolResult.is_error) ELSE Undefined]>>
  ELSE IF "ToolResult" \in DOMAIN entry
    THEN IF PrevIsMatchingExecuting(entries, i)
           THEN <<>>
           ELSE <<[type |-> "orphan_result",
                   name |-> entry.ToolResult.name,
                   result |-> entry.ToolResult.result,
                   isError |-> entry.ToolResult.is_error]>>
  ELSE IF "TodoUpdate" \in DOMAIN entry
    THEN <<[type |-> "todo", content |-> entry.TodoUpdate]>>
  ELSE <<>>

RECURSIVE ResolveFrom(_, _)
ResolveFrom(entries, i) ==
  IF i > Len(entries) THEN <<>>
  ELSE ResolveAt(entries, i) \o ResolveFrom(entries, i + 1)

resolveEntries(entries) == ResolveFrom(entries, 1)

\* Raw logs handed to the resolver
EntryAlphabet ==
  { ToolExecutingEntry("A", "{}"), ToolExecutingEntry("B", "{}"),
    ToolResultEntry("A", "3 matches", FALSE), ToolResultEntry("B", "boom", TRUE),
    TextEntry("x"), UserMessageEntry("hi"), TodoUpdateEntry("t1") }

EntryLogs == UNION {[1..n -> EntryAlphabet] : n \in 0..MaxEntries}

ResolverIdle ==
  /\ rawEntries = <<>>
  /\ resolved = <<>>
  /\ resolverRan = FALSE

ResolverInit ==
  /\ rawEntries \in EntryLogs
  /\ resolved = <<>>
  /\ resolverRan = FALSE

Resolve ==
  /\ ~resolverRan
  /\ resolved' = resolveEntries(rawEntries)
  /\ resolverRan' = TRUE
  /\ UNCHANGED rawEntries

\* ------------------------------------------------------------------------
\* Inbound messages the backend may send (lib/protocol.ts, WsServerMessage)
\* ------------------------------------------------------------------------
Question1 == [prompt |-> "Deploy?", choices |-> <<[label |-> "y", body |-> "yes", metadata |-> ""]>>,
              editable |-> FALSE, max_edit_length |-> Null]

LogLine1 == [time |-> "09:59:59", level |-> "Debug", message |-> "backend line"]

\* UiStateSnapshot payloads.  agent_output is whatever the backend holds:
\* the type AgentEntry[] does not restrict how many TodoUpdate entries it has.
SnapshotTwoTodos ==
  [ phase |-> "Running", round |-> 2, max_rounds |-> 9, context_pct |-> 42,
    model |-> "m1", cycle |-> 1,
    agent_output |-> <<TodoUpdateEntry("t0"), TextEntry("x"), TodoUpdateEntry("t9")>>,
    streaming_buffer |-> "s", logs |-> <<LogLine1>>, running |-> TRUE,
    next_cycle_secs |-> Some(30),
    active_question |-> Some([question |-> Question1, remaining_secs |-> Some(5), done |-> FALSE]),
    extension |-> Some([k |-> "v1"]) ]

SnapshotOneTodo ==
  [ phase |-> "Idle", round |-> 1, max_rounds |-> 5, context_pct |-> 7,
    model |-> "m2", cycle |-> 0,
    agent_output |-> <<UserMessageEntry("hi"), TodoUpdateEntry("t0")>>,
    streaming_buffer |-> "", logs |-> <<>>, running |-> FALSE,
    next_cycle_secs |-> Null, active_question |-> Null, extension |-> Null ]

SnapshotEmpty ==
  [ phase |-> "Starting", round |-> 0, max_rounds |-> 5, context_pct |-> 0,
    model |-> "m1", cycle |-> 0, agent_output |-> <<>>,
    streaming_buffer |-> "", logs |-> <<>>, running |-> TRUE,
    next_cycle_secs |-> Null, active_question |-> Null, extension |-> Null ]

Snapshots == {SnapshotTwoTodos, SnapshotOneTodo, SnapshotEmpty}

ToolNames == {"A", "B"}

\* Readings of the wall clock
Clock == {"10:00:00", "10:00:01"}

KnownTypes ==
  { "snapshot", "text", "text_delta", "tool_executing", "tool_result", "reasoning",
    "reasoning_delta", "round", "phase", "question", "question_dismissed", "finished",
    "log", "extension", "user_message", "token_usage", "tool_calls_received",
    "tool_cache_hit", "eviction", "compaction", "model_routed", "checkpoint_saved",
    "checkpoint_resumed", "empty_response", "approval_required", "todo_update" }

Messages ==
  {[type |-> "snapshot", data |-> d] : d \in Snapshots}
    \cup {[type |-> "text", text |-> "x"]}
    \cup {[type |-> "text_delta", delta |-> d] : d \in {"a", "b"}}
    \cup {[type |-> "tool_executing", name |-> n, arguments |-> "{}"] : n \in ToolNames}
    \cup {[type |-> "tool_result", name |-> n, result |-> "3 matches", is_error |-> (n = "B")] :
            n \in ToolNames}
    \cup {[type |-> "reasoning", text |-> "why"]}
    \cup {[type |-> "reasoning_delta", delta |-> "r"]}
    \cup {[type |-> "round", round |-> 3, max_rounds |-> 10, context_pct |-> 42]}
    \cup {[type |-> "phase", phase |-> "Thinking"]}
    \cup {[type |-> "question", question |-> Question1]}
    \cup {[type |-> "question_dismissed"]}
    \cup {[type |-> "finished"]}
    \cup {[type |-> "log", line |-> LogLine1]}
    \cup {[type |-> "extension", data |-> [j |-> "v2"]]}
    \cup {[type |-> "user_message", message |-> "hi"]}
    \cup {[type |-> "token_usage", prompt_tokens |-> 100, completion_tokens |-> 20]}
    \cup {[type |-> "tool_calls_received", round |-> 3, count |-> 2]}
    \cup {[type |-> "tool_cache_hit", name |-> "A", arguments |-> "{}"]}
    \cup {[type |-> "eviction", freed_chars |-> 500, evicted_count |-> 2]}
    \cup {[type |-> "compaction", compaction_number |-> 1]}
    \cup {[type |-> "model_routed", model |-> "m2", round |-> 3]}
    \cup {[type |-> "checkpoint_saved", round |-> 3, path |-> "/tmp/ck"]}
    \cup {[type |-> "checkpoint_resumed", round |-> 3]}
    \cup {[type |-> "empty_response", round |-> 3, attempt |-> 1, max_retries |-> 3]}
    \cup {[type |-> "approval_required", name |-> "A", arguments |-> "{}"]}
    \cup {[type |-> "todo_update", content |-> c] : c \in {"t1", "t2"}}
    \cup {[type |-> "heartbeat", seq |-> 7]}      \* a discriminator of a newer backend

TodoCount(entries) == Cardinality({i \in 1..Len(entries) : "TodoUpdate" \in DOMAIN entries[i]})

\* ------------------------------------------------------------------------
\* The reducer driven by a message stream
\*   setState((prev) => applyMessage(prev, msg))
\* ------------------------------------------------------------------------
\* The messages that append an entry: by their type, and a todo_update when
\* the log holds no TodoUpdate yet
AppendingTypes ==
  {"text", "user_message", "reasoning", "tool_cache_hit", "tool_executing", "tool_result"}

IsAppending(msg, entries) ==
  \/ msg.type \in AppendingTypes
  \/ msg.type = "todo_update" /\ TodoCount(entries) = 0

\* Observer of the stream, per tool name n:
\*   clean:  a tool_executing{n} has arrived and only messages that append
\*           no entry have arrived since
\*   broken: a tool_executing{n} has arrived and a message that appends an
\*           entry has arrived since the latest one
\*   again:  a tool_executing{n} has arrived after an earlier one
\*   verdict, repeated: for the latest message, if it is a tool_result{n}, where
\*           n stood just before it
\* The observer is kept only in the exploration that watches the pairs
PairingOff == [watch |-> FALSE]

PairingIdle ==
  [watch |-> TRUE, clean |-> {}, broken |-> {}, again |-> {}, verdict |-> "n/a",
   repeated |-> FALSE]

PairingAfter(p, msg, entries) ==
  LET verdict == IF msg.type # "tool_result" THEN "n/a"
                 ELSE IF msg.name \in p.clean THEN "clean"
                 ELSE IF msg.name \in p.broken THEN "appended"
                 ELSE "none"
      repeated == msg.type = "tool_result" /\ msg.name \in p.again
  IN
  IF ~p.watch
    THEN p
  ELSE IF msg.type = "snapshot"
    THEN PairingIdle
  ELSE IF msg.type = "tool_executing"
    THEN [watch |-> TRUE, clean |-> {msg.name},
          broken |-> (p.broken \cup p.clean) \ {msg.name},
          again |-> p.again \cup ({msg.name} \cap (p.clean \cup p.broken)),
          verdict |-> verdict, repeated |-> repeated]
  ELSE IF IsAppending(msg, entries)
    THEN [watch |-> TRUE, clean |-> {}, broken |-> p.broken \cup p.clean, again |-> p.again,
          verdict |-> verdict, repeated |-> repeated]
  ELSE [p EXCEPT !.verdict = verdict, !.repeated = repeated]

ReducerIdle ==
  /\ state = INITIAL_STATE
  /\ lastMsg = [type |-> "none"]
  /\ nmsgs = 0
  /\ sawSnapshot = FALSE
  /\ sawFinished = FALSE
  /\ firstTodoAt = 0
  /\ lastTodo = ""
  /\ snapshotsClean = TRUE
  /\ prevState = INITIAL_STATE
  /\ runBase = ""
  /\ deltaRun = ""
  /\ pairing = PairingOff


Observe(msg) ==
  /\ lastMsg' = msg
  /\ nmsgs' = nmsgs + 1
  /\ sawSnapshot' = (sawSnapshot \/ msg.type = "snapshot")
  /\ sawFinished' = (sawFinished \/ msg.type = "finished")
  /\ firstTodoAt' = IF msg.type = "todo_update" /\ firstTodoAt = 0
                      THEN Len(state.entries) + 1 ELSE firstTodoAt
  /\ lastTodo' = IF msg.type = "todo_update" THEN msg.content ELSE lastTodo
  /\ snapshotsClean' = (snapshotsClean /\
                          (msg.type = "snapshot" => TodoCount(msg.data.agent_output) <= 1))
  /\ prevState' = state
  /\ runBase' = IF msg.type = "text_delta" /\ lastMsg.type # "text_delta"
                  THEN state.streamingBuffer ELSE runBase
  /\ deltaRun' = IF msg.type # "text_delta" THEN deltaRun
                  ELSE IF lastMsg.type = "text_delta" THEN deltaRun \o msg.delta
                  ELSE msg.delta
  /\ pairing' = PairingAfter(pairing, msg, state.entries)

\* ------------------------------------------------------------------------
\* hooks/useAgentSocket.ts
\* ------------------------------------------------------------------------
MAX_RETRY_DELAY == 16000

INITIAL_RETRY_DELAY == 1000

Min(a, b) == IF a <= b THEN a ELSE b

\* (variant: the stored delay is used as it is)
ScheduledDelayUncapped(retryDelay) == retryDelay

\* const delay = Math.min(retryDelayRef.current, MAX_RETRY_DELAY)
ScheduledDelay(retryDelay) == Min(retryDelay, MAX_RETRY_DELAY)

\* (variant: the doubled delay is cut to the ceiling before it is stored)
StoredDelayCapped(delay) == Min(delay * 2, MAX_RETRY_DELAY)

\* retryDelayRef.current = delay * 2
StoredDelay(delay) == delay * 2

ConnIdle ==
  /\ mounted = "rendered"
  /\ connected = FALSE
  /\ wsRef = 0
  /\ retryDelayRef = INITIAL_RETRY_DELAY
  /\ cancelled = <<>>
  /\ timeoutPending = <<>>
  /\ socks = <<>>
  /\ sent = <<>>
  /\ ncalls = 0
  /\ expectedSent = <<>>
  /\ failures = 0
  /\ lastDelay = 0
  /\ everLost = FALSE
  /\ latePublished = FALSE
  /\ answered = FALSE
  /\ renderThrew = FALSE
  /\ nbad = 0
  /\ closeMarked = TRUE
  /\ delivered = <<>>
  /\ lastCall = [cmd |-> "none"]

\* The effect run that is current (0 before the first)
CurrentRun == Len(cancelled)

\* new WebSocket(wsUrl) by run r
NewSocket(r) == [readyState |-> "CONNECTING", run |-> r]

\* ws.close(): a socket that is CONNECTING or OPEN becomes CLOSING and its
\* close event follows later; on a CLOSING or CLOSED socket it does nothing
CloseCalled(ss, id) ==
  IF ss[id].readyState \in {"CONNECTING", "OPEN"}
    THEN [ss EXCEPT ![id].readyState = "CLOSING"]
    ELSE ss

\* the effect's cleanup, on the sockets: wsRef.current?.close()
CleanupSockets == IF wsRef # 0 THEN CloseCalled(socks, wsRef) ELSE socks

\* the effect's cleanup, on the closure of the current run:
\* cancelled = true; if (timeoutId !== null) clearTimeout(timeoutId)
CleanupCancelled == [cancelled EXCEPT ![CurrentRun] = TRUE]

CleanupTimeout == [timeoutPending EXCEPT ![CurrentRun] = FALSE]

\* ws.readyState === WebSocket.OPEN for ws = wsRef.current
RefIsOpen == wsRef # 0 /\ socks[wsRef].readyState = "OPEN"

\* The connection of the session is open: the socket of the current,
\* not torn down, run of the effect is OPEN
ConnectionOpen ==
  \E id \in 1..Len(socks) :
    /\ socks[id].run = CurrentRun
    /\ ~cancelled[CurrentRun]
    /\ socks[id].readyState = "OPEN"

\* ------------------------------------------------------------------------
\* components/ConnectionStatus.tsx
\* ------------------------------------------------------------------------
StatusIdle ==
  /\ phaseRef = "hidden"
  /\ prevConnectedRef = TRUE
  /\ seenConnected = FALSE
  /\ timer = FALSE
  /\ exitTimer = FALSE
  /\ phaseTrail = <<>>
  /\ lostFrom = {}

\* setTimeout(..., 2000) and setTimeout(..., 2350)
TimerDelay == 2000

ExitTimerDelay == 2350

\* (variant: the timers of an announcement survive the loss of the connection)
StatusEffectBodyKeepsTimers(conn) ==
  LET wasConnected == prevConnectedRef IN
  /\ prevConnectedRef' = conn
  /\ seenConnected' = conn
  /\ IF ~conn
       THEN /\ phaseRef' = "disconnected"
            /\ phaseTrail' = <<>>
            /\ UNCHANGED <<timer, exitTimer>>
       ELSE IF ~wasConnected
         THEN /\ phaseRef' = "reconnected"
              /\ phaseTrail' = <<[phase |-> "reconnected", at |-> 0]>>
              /\ timer' = TRUE
              /\ exitTimer' = TRUE
         ELSE /\ phaseRef' = phaseRef
              /\ phaseTrail' = phaseTrail
              /\ timer' = FALSE
              /\ exitTimer' = FALSE

\* The effect of ConnectionStatus for a render with connected = conn, run
\* after the cleanup of the previous run (which clears both timers)
StatusEffectBody(conn) ==
  LET wasConnected == prevConnectedRef IN
  /\ prevConnectedRef' = conn
  /\ seenConnected' = conn
  /\ IF ~conn
       THEN /\ phaseRef' = "disconnected"
            /\ phaseTrail' = <<>>
            /\ timer' = FALSE
            /\ exitTimer' = FALSE
       ELSE IF ~wasConnected
         THEN /\ phaseRef' = "reconnected"
              /\ phaseTrail' = <<[phase |-> "reconnected", at |-> 0]>>
              /\ timer' = TRUE
              /\ exitTimer' = TRUE
         ELSE /\ phaseRef' = phaseRef
              /\ phaseTrail' = phaseTrail
              /\ timer' = FALSE
              /\ exitTimer' = FALSE

\* A render with a changed `connected` commits and the effect runs again
StatusEffect ==
  /\ mounted = "mounted"
  /\ connected # seenConnected
  /\ StatusEffectBody(connected)
  /\ lostFrom' = IF ~connected THEN lostFrom \cup {phaseRef} ELSE lostFrom
  /\ UNCHANGED <<rvars, evars, cvars, ovars>>

\* setTimeout(() => setPhase("exiting"), 2000): of two pending timers set
\* together the one with the shorter delay fires first
StatusTimer ==
  /\ timer
  /\ exitTimer => TimerDelay <= ExitTimerDelay
  /\ timer' = FALSE
  /\ phaseRef' = "exiting"
  /\ phaseTrail' = Append(phaseTrail, [phase |-> "exiting", at |-> TimerDelay])
  /\ UNCHANGED <<prevConnectedRef, seenConnected, exitTimer, lostFrom>>
  /\ UNCHANGED <<rvars, evars, cvars, ovars>>

\* (variant: the exit timer may fire before the other one)
StatusExitTimerUnordered ==
  /\ exitTimer
  /\ exitTimer' = FALSE
  /\ phaseRef' = "hidden"
  /\ phaseTrail' = Append(phaseTrail, [phase |-> "hidden", at |-> ExitTimerDelay])
  /\ UNCHANGED <<prevConnectedRef, seenConnected, timer, lostFrom>>
  /\ UNCHANGED <<rvars, evars, cvars, ovars>>

\* setTimeout(() => setPhase("hidden"), 2350): due 350 ms after the other
StatusExitTimer ==
  /\ exitTimer
  /\ timer => ExitTimerDelay < TimerDelay
  /\ exitTimer' = FALSE
  /\ phaseRef' = "hidden"
  /\ phaseTrail' = Append(phaseTrail, [phase |-> "hidden", at |-> ExitTimerDelay])
  /\ UNCHANGED <<prevConnectedRef, seenConnected, timer, lostFrom>>
  /\ UNCHANGED <<rvars, evars, cvars, ovars>>

\* ------------------------------------------------------------------------
\* The page: mount, effect re-run, unmount
\* ------------------------------------------------------------------------

\* First commit: the effect of ConnectionStatus (a child) runs with
\* connected = false, then the effect of useAgentSocket calls connect()
Mount ==
  /\ mounted = "rendered"
  /\ mounted' = "mounted"
  /\ StatusEffectBody(connected)
  /\ lostFrom' = lostFrom
  /\ cancelled' = <<FALSE>>
  /\ timeoutPending' = <<FALSE>>
  /\ socks' = <<NewSocket(1)>>
  /\ wsRef' = 1
  /\ UNCHANGED <<connected, retryDelayRef, sent, ncalls, expectedSent, failures, lastDelay,
                 everLost, socketCap, frameCap>>
  /\ UNCHANGED <<rvars, evars, ovars>>

\* backendUrl changes (or the effect is run twice by StrictMode): the cleanup
\* of the current run, then the effect again, in one commit
Rerun ==
  /\ mounted = "mounted"
  /\ CurrentRun < MaxRuns
  /\ Len(socks) < socketCap
  /\ cancelled' = Append(CleanupCancelled, FALSE)
  /\ timeoutPending' = Append(CleanupTimeout, FALSE)
  /\ socks' = Append(CleanupSockets, NewSocket(CurrentRun + 1))
  /\ wsRef' = Len(socks) + 1
  /\ UNCHANGED <<mounted, connected, retryDelayRef, sent, ncalls, expectedSent, failures,
                 lastDelay, everLost, socketCap, frameCap>>
  /\ UNCHANGED <<rvars, evars, ovars, pvars>>

\* The page goes away: the cleanups of both effects
Unmount ==
  /\ mounted = "mounted"
  /\ mounted' = "unmounted"
  /\ cancelled' = CleanupCancelled
  /\ timeoutPending' = CleanupTimeout
  /\ socks' = CleanupSockets
  /\ timer' = FALSE
  /\ exitTimer' = FALSE
  /\ UNCHANGED <<connected, wsRef, retryDelayRef, sent, ncalls, expectedSent, failures,
                 lastDelay, everLost, socketCap, frameCap>>
  /\ UNCHANGED <<phaseRef, prevConnectedRef, seenConnected, phaseTrail, lostFrom>>
  /\ UNCHANGED <<rvars, evars, ovars>>

\* A state setter of an unmounted component has no effect
Published(new, old) == IF mounted = "mounted" THEN new ELSE old

\* (variant: the open event resets the delay but does not mark connected)
SockOpenLeavesFlag(id) ==
  /\ socks[id].readyState = "CONNECTING"
  /\ socks' = [socks EXCEPT ![id].readyState = "OPEN"]
  /\ retryDelayRef' = INITIAL_RETRY_DELAY
  /\ failures' = 0
  /\ UNCHANGED <<mounted, connected, wsRef, cancelled, timeoutPending, sent, ncalls,
                 expectedSent, lastDelay, everLost, socketCap, frameCap>>
  /\ UNCHANGED <<rvars, evars, ovars, pvars>>

\* ws.onopen
SockOpen(id) ==
  /\ socks[id].readyState = "CONNECTING"
  /\ socks' = [socks EXCEPT ![id].readyState = "OPEN"]
  /\ connected' = Published(TRUE, connected)
  /\ retryDelayRef' = INITIAL_RETRY_DELAY
  /\ failures' = 0
  /\ latePublished' = (latePublished \/ (cancelled[socks[id].run] /\ connected' # connected))
  /\ UNCHANGED <<mounted, wsRef, cancelled, timeoutPending, sent, ncalls, expectedSent,
                 lastDelay, everLost, socketCap, frameCap>>
  /\ UNCHANGED <<answered, renderThrew, nbad, closeMarked, delivered, lastCall>>
  /\ UNCHANGED <<rvars, evars, pvars>>

\* (variant: the manager stops retrying after three failures in a row)
ShouldReconnectGivesUp(r) == ~cancelled[r] /\ failures < 3

\* if (!cancelled), in the closure of run r
ShouldReconnect(r) == ~cancelled[r]

\* (variant: the close event also puts the Session State back to its
\* initial value)
SockCloseResetsState(id) ==
  LET r == socks[id].run
      delay == ScheduledDelay(retryDelayRef)
  IN
  /\ socks[id].readyState \in {"CONNECTING", "OPEN", "CLOSING"}
  /\ socks' = [socks EXCEPT ![id].readyState = "CLOSED"]
  /\ connected' = Published(FALSE, connected)
  /\ state' = Published(INITIAL_STATE, state)
  /\ wsRef' = 0
  /\ everLost' = (everLost \/ socks[id].readyState = "OPEN")
  /\ IF ShouldReconnect(r)
       THEN /\ retryDelayRef' = StoredDelay(delay)
            /\ timeoutPending' = [timeoutPending EXCEPT ![r] = TRUE]
            /\ failures' = failures + 1
            /\ lastDelay' = delay
       ELSE UNCHANGED <<retryDelayRef, timeoutPending, failures, lastDelay>>
  /\ UNCHANGED <<mounted, cancelled, sent, ncalls, expectedSent, socketCap, frameCap>>
  /\ UNCHANGED <<lastMsg, nmsgs, sawSnapshot, sawFinished, firstTodoAt, lastTodo,
                 snapshotsClean, prevState, runBase, deltaRun, pairing>>
  /\ UNCHANGED <<evars, ovars, pvars>>

\* ws.onclose: the attempt failed, the peer or the network closed the
\* connection, or the close that close() started has completed
SockClose(id) ==
  LET r == socks[id].run
      delay == ScheduledDelay(retryDelayRef)
  IN
  /\ socks[id].readyState \in {"CONNECTING", "OPEN", "CLOSING"}
  /\ socks' = [socks EXCEPT ![id].readyState = "CLOSED"]
  /\ connected' = Published(FALSE, connected)
  /\ wsRef' = 0
  /\ everLost' = (everLost \/ socks[id].readyState = "OPEN")
  /\ IF ShouldReconnect(r)
       THEN /\ retryDelayRef' = StoredDelay(delay)
            /\ timeoutPending' = [timeoutPending EXCEPT ![r] = TRUE]
            /\ failures' = failures + 1
            /\ lastDelay' = delay
       ELSE UNCHANGED <<retryDelayRef, timeoutPending, failures, lastDelay>>
  /\ latePublished' = (latePublished \/ (cancelled[r] /\ connected' # connected))
  /\ closeMarked' = (closeMarked /\ (mounted = "mounted" => ~connected'))
  /\ UNCHANGED <<mounted, cancelled, sent, ncalls, expectedSent, socketCap, frameCap>>
  /\ UNCHANGED <<answered, renderThrew, nbad, delivered, lastCall>>
  /\ UNCHANGED <<rvars, evars, pvars>>

\* ws.onerror: nothing; the close event that follows does the work
SockError(id) ==
  /\ socks[id].readyState \in {"CONNECTING", "OPEN"}
  /\ UNCHANGED vars

\* (variant: the timer is an interval, still pending after it has fired)
TimerFireRepeats(r) ==
  /\ timeoutPending[r]
  /\ IF cancelled[r]
       THEN UNCHANGED <<socks, wsRef>>
       ELSE /\ Len(socks) < socketCap
            /\ socks' = Append(socks, NewSocket(r))
            /\ wsRef' = Len(socks) + 1
  /\ UNCHANGED <<mounted, connected, retryDelayRef, cancelled, timeoutPending, sent, ncalls,
                 expectedSent, failures, lastDelay, everLost, socketCap, frameCap>>
  /\ UNCHANGED <<rvars, evars, ovars, pvars>>

\* the timer set by onclose fires: connect()
TimerFire(r) ==
  /\ timeoutPending[r]
  /\ timeoutPending' = [timeoutPending EXCEPT ![r] = FALSE]
  /\ IF cancelled[r]
       THEN UNCHANGED <<socks, wsRef>>
       ELSE /\ Len(socks) < socketCap
            /\ socks' = Append(socks, NewSocket(r))
            /\ wsRef' = Len(socks) + 1
  /\ UNCHANGED <<mounted, connected, retryDelayRef, cancelled, sent, ncalls, expectedSent,
                 failures, lastDelay, everLost, socketCap, frameCap>>
  /\ UNCHANGED <<rvars, evars, ovars, pvars>>

\* (variant: the frame is handed over whatever the state of the socket)
TransmitUnguarded(cmd) == Append(sent, [to |-> wsRef, type |-> cmd])

\* const ws = wsRef.current;
\* if (ws?.readyState === WebSocket.OPEN) ws.send(JSON.stringify({type, ...}))
Transmit(cmd) == IF RefIsOpen THEN Append(sent, [to |-> wsRef, type |-> cmd]) ELSE sent

\* sendAnswer / sendChat / sendQuit
Send(cmd) ==
  /\ mounted \in {"mounted", "unmounted"}
  /\ ncalls < MaxCalls
  /\ ncalls' = ncalls + 1
  /\ sent' = Transmit(cmd)
  /\ expectedSent' = IF ConnectionOpen THEN Append(expectedSent, cmd) ELSE expectedSent
  /\ UNCHANGED <<mounted, connected, wsRef, retryDelayRef, cancelled, timeoutPending,
                 socks, failures, lastDelay, everLost, socketCap, frameCap>>
  /\ answered' = (answered \/ (cmd = "answer" /\ state.activeQuestion # Null /\ RefIsOpen))
  /\ UNCHANGED <<latePublished, renderThrew, nbad, closeMarked, delivered>>
  /\ UNCHANGED <<rvars, evars, pvars>>
  /\ lastCall' = [cmd |-> cmd, connOpen |-> ConnectionOpen,
                  questionBefore |-> state.activeQuestion,
                  questionAfter |-> state'.activeQuestion,
                  sentBefore |-> Len(sent), sentAfter |-> Len(sent')]

\* Frames the sockets deliver: JSON texts of messages, and a text that is no JSON
ConnMessages ==
  { [type |-> "snapshot", data |-> SnapshotOneTodo],
    [type |-> "text", text |-> "x"],
    [type |-> "question", question |-> Question1] }

\* (variant: the update of one frame is applied twice)
ApplyFrameTwice(prev, msg, now) == applyMessage(applyMessage(prev, msg, now), msg, now)

\* the updater handed to setState:  (prev) => applyMessage(prev, msg)
ApplyFrame(prev, msg, now) == applyMessage(prev, msg, now)

\* ws.onmessage with a frame that parses
OnMessage(id) ==
  /\ socks[id].readyState = "OPEN"
  /\ nmsgs < frameCap
  /\ \E msg \in ConnMessages, now \in Clock :
       /\ state' = Published(ApplyFrame(state, msg, now), state)
       /\ Observe(msg)
       /\ delivered' = Append(delivered, [via |-> id, msg |-> msg, now |-> now])
       /\ answered' = (answered /\ msg.type \notin {"snapshot", "question", "question_dismissed"})
  /\ latePublished' = (latePublished \/ (cancelled[socks[id].run] /\ state' # state))
  /\ UNCHANGED <<renderThrew, nbad, closeMarked, lastCall>>
  /\ UNCHANGED <<evars, cvars, pvars>>

\* Frames that are not messages of the protocol: a text that is no JSON,
\* JSON null, a JSON number, and two known types without their payload
BadFrames ==
  { "not json", "null", "42", "{\"type\":\"snapshot\"}", "{\"type\":\"tool_calls_received\"}" }

\* JSON.parse(event.data) on those frames: ok = FALSE when it throws
JsonParse(frame) ==
  CASE frame = "null" -> [ok |-> TRUE, value |-> [json |-> "null"]]
    [] frame = "42" -> [ok |-> TRUE, value |-> [json |-> "number"]]
    [] frame = "{\"type\":\"snapshot\"}" ->
         [ok |-> TRUE, value |-> [json |-> "object", obj |-> [type |-> "snapshot"]]]
    [] frame = "{\"type\":\"tool_calls_received\"}" ->
         [ok |-> TRUE, value |-> [json |-> "object", obj |-> [type |-> "tool_calls_received"]]]
    [] OTHER -> [ok |-> FALSE]

\* (prev) => applyMessage(prev, msg) on a decoded value that TypeScript only
\* asserts to be a WsServerMessage:  msg.type  of null throws a TypeError, of
\* a number is undefined (default branch);  s.phase  of a snapshot without
\* data throws;  `${msg.count} tool call(s)`  without count is
\* "undefined tool call(s)"
Updater(prev, v, now) ==
  IF v.json = "null" THEN [threw |-> TRUE]
  ELSE IF v.json # "object" THEN [threw |-> FALSE, state |-> prev]
  ELSE IF v.obj.type = "snapshot" /\ "data" \notin DOMAIN v.obj THEN [threw |-> TRUE]
  ELSE IF v.obj.type = "tool_calls_received" /\ "count" \notin DOMAIN v.obj
    THEN [threw |-> FALSE, state |-> [prev EXCEPT !.phase = "undefined tool call(s)"]]
  ELSE [threw |-> FALSE, state |-> applyMessage(prev, v.obj, now)]

\* ws.onmessage with such a frame.  The catch block covers JSON.parse and the
\* call of setState; the updater runs later, when React renders, outside the
\* try.  An exception thrown while rendering unmounts the component tree
\* (the cleanups of the effects run).
OnMalformedFrame(id) ==
  /\ socks[id].readyState = "OPEN"
  /\ nbad < MaxBadFrames
  /\ nbad' = nbad + 1
  /\ \E frame \in BadFrames, now \in Clock :
       LET parsed == JsonParse(frame)
           ran == mounted = "mounted" /\ parsed.ok
           out == Updater(state, parsed.value, now)
       IN
       /\ lastMsg' = [type |-> "frame", text |-> frame]
       /\ prevState' = state
       /\ IF ran /\ out.threw
            THEN /\ renderThrew' = TRUE
                 /\ mounted' = "unmounted"
                 /\ cancelled' = CleanupCancelled
                 /\ timeoutPending' = CleanupTimeout
                 /\ socks' = CleanupSockets
                 /\ timer' = FALSE
                 /\ exitTimer' = FALSE
                 /\ UNCHANGED <<state, latePublished>>
            ELSE /\ state' = IF ran THEN out.state ELSE state
                 /\ latePublished' =
                      (latePublished \/ (cancelled[socks[id].run] /\ state' # state))
                 /\ UNCHANGED <<renderThrew, mounted, cancelled, timeoutPending, socks,
                                timer, exitTimer>>
  /\ UNCHANGED <<nmsgs, sawSnapshot, sawFinished, firstTodoAt, lastTodo, snapshotsClean,
                 runBase, deltaRun, pairing>>
  /\ UNCHANGED <<connected, wsRef, retryDelayRef, sent, ncalls, expectedSent, failures,
                 lastDelay, everLost, socketCap, frameCap>>
  /\ UNCHANGED <<answered, closeMarked, delivered, lastCall>>
  /\ UNCHANGED <<phaseRef, prevConnectedRef, seenConnected, phaseTrail, lostFrom>>
  /\ UNCHANGED evars

ConnInit ==
  /\ ReducerIdle /\ ResolverIdle /\ ConnIdle /\ StatusIdle
  /\ socketCap = MaxSockets
  /\ frameCap = MaxFrames

SessionInit ==
  /\ ReducerIdle /\ ResolverIdle /\ ConnIdle /\ StatusIdle
  /\ socketCap = MaxSessionSockets
  /\ frameCap = MaxFrames

FoldInit ==
  /\ ReducerIdle /\ ResolverIdle /\ ConnIdle /\ StatusIdle
  /\ socketCap = MaxSessionSockets
  /\ frameCap = MaxFoldFrames

\* The life of the connection manager: the page's commits, the socket
\* events and the reconnect timer
ManagerNext ==
  \/ Mount
  \/ Rerun
  \/ Unmount
  \/ \E id \in 1..Len(socks) : SockOpen(id)
  \/ \E id \in 1..Len(socks) : SockClose(id)
  \/ \E id \in 1..Len(socks) : SockError(id)
  \/ \E r \in 1..Len(timeoutPending) : TimerFire(r)

SpecManager == ConnInit /\ [][ManagerNext]_vars

\* A timer set with setTimeout fires unless it is cleared
SpecManagerFair ==
  SpecManager /\ WF_vars(\E r \in 1..Len(timeoutPending) : TimerFire(r))

\* The connection manager and the connection-status presentation
StatusNext ==
  \/ ManagerNext
  \/ StatusEffect
  \/ StatusTimer
  \/ StatusExitTimer

SpecStatus == ConnInit /\ [][StatusNext]_vars

\* The connection manager, the inbound messages and the outbound commands,
\* over at most MaxSessionSockets sockets
SessionNext ==
  \/ ManagerNext
  \/ \E id \in 1..Len(socks) : OnMessage(id)
  \/ \E cmd \in {"answer", "chat", "quit"} : Send(cmd)

SpecSession == SessionInit /\ [][SessionNext]_vars

\* One mount of the page with a user who answers: the socket events, the
\* reconnect timer, the inbound messages and calls of sendAnswer
AnswerNext ==
  \/ Mount
  \/ Unmount
  \/ \E id \in 1..Len(socks) : SockOpen(id)
  \/ \E id \in 1..Len(socks) : SockClose(id)
  \/ \E r \in 1..Len(timeoutPending) : TimerFire(r)
  \/ \E id \in 1..Len(socks) : OnMessage(id)
  \/ Send("answer")

SpecAnswer == SessionInit /\ [][AnswerNext]_vars

\* One mount of the page receiving frames of every kind, over at most
\* MaxSessionSockets sockets
FramesNext ==
  \/ Mount
  \/ Unmount
  \/ \E id \in 1..Len(socks) : SockOpen(id)
  \/ \E id \in 1..Len(socks) : SockClose(id)
  \/ \E r \in 1..Len(timeoutPending) : TimerFire(r)
  \/ \E id \in 1..Len(socks) : OnMessage(id)
  \/ \E id \in 1..Len(socks) : OnMalformedFrame(id)

SpecFrames == SessionInit /\ [][FramesNext]_vars

\* The connection manager and the inbound messages, MaxFoldFrames of them
FoldNext ==
  \/ ManagerNext
  \/ \E id \in 1..Len(socks) : OnMessage(id)

SpecFold == FoldInit /\ [][FoldNext]_vars

\* ------------------------------------------------------------------------
\* The reducer applied to a stream of messages
\* ------------------------------------------------------------------------
ReducerInit == ConnInit

Reduce ==
  /\ nmsgs < MaxMsgs
  /\ \E msg \in Messages, now \in Clock :
       /\ state' = applyMessage(state, msg, now)
       /\ Observe(msg)
  /\ UNCHANGED <<evars, cvars, ovars, pvars>>

ReducerNext == Reduce

SpecReducer == ReducerInit /\ [][ReducerNext]_vars

\* ------------------------------------------------------------------------
\* The reducer applied to a stream of messages, in a session that is new or
\* in one whose log already holds a TodoUpdate (a todo_update has been
\* received); nmsgs counts the messages from there
\* ------------------------------------------------------------------------
FirstTodo == [type |-> "todo_update", content |-> "t1"]

PairingInit ==
  /\ ResolverIdle /\ ConnIdle /\ StatusIdle
  /\ socketCap = MaxSockets
  /\ frameCap = MaxFrames
  /\ nmsgs = 0
  /\ sawSnapshot = FALSE
  /\ sawFinished = FALSE
  /\ snapshotsClean = TRUE
  /\ prevState = INITIAL_STATE
  /\ runBase = ""
  /\ deltaRun = ""
  /\ \/ /\ state = INITIAL_STATE
        /\ lastMsg = [type |-> "none"]
        /\ firstTodoAt = 0
        /\ lastTodo = ""
        /\ pairing = PairingIdle
     \/ \E now \in Clock :
          /\ state = applyMessage(INITIAL_STATE, FirstTodo, now)
          /\ lastMsg = FirstTodo
          /\ firstTodoAt = 1
          /\ lastTodo = FirstTodo.content
          /\ pairing = PairingAfter(PairingIdle, FirstTodo, INITIAL_STATE.entries)

\* The messages of the stream between a tool_executing and its tool_result
PairingMessages ==
  {m \in Messages :
     m.type \notin {"snapshot", "question", "question_dismissed", "finished", "heartbeat"}}

PairReduce ==
  /\ nmsgs < MaxMsgs
  /\ \E msg \in PairingMessages, now \in Clock :
       /\ state' = applyMessage(state, msg, now)
       /\ Observe(msg)
  /\ UNCHANGED <<evars, cvars, ovars, pvars>>

PairingNext == PairReduce

SpecPairing == PairingInit /\ [][PairingNext]_vars

\* ------------------------------------------------------------------------
\* The reducer and the resolver together: the chat stream renders the entries
\* of the published state
\* ------------------------------------------------------------------------
ComposeMessages ==
  { [type |-> "round", round |-> 3, max_rounds |-> 10, context_pct |-> 42],
    [type |-> "tool_executing", name |-> "grep", arguments |-> "{}"],
    [type |-> "tool_executing", name |-> "B", arguments |-> "{}"],
    [type |-> "tool_result", name |-> "grep", result |-> "3 matches", is_error |-> FALSE],
    [type |-> "tool_result", name |-> "B", result |-> "boom", is_error |-> TRUE],
    [type |-> "tool_cache_hit", name |-> "grep", arguments |-> "{}"],
    [type |-> "reasoning", text |-> "why"],
    [type |-> "text", text |-> "x"],
    [type |-> "text_delta", delta |-> "a"],
    [type |-> "reasoning_delta", delta |-> "r"],
    [type |-> "todo_update", content |-> "t1"] }

ComposeReduce ==
  /\ nmsgs < MaxMsgs
  /\ \E msg \in ComposeMessages, now \in Clock :
       /\ state' = applyMessage(state, msg, now)
       /\ Observe(msg)
  /\ UNCHANGED <<evars, cvars, ovars, pvars>>

\* const resolved = useMemo(() => resolveEntries(state.entries), [state.entries])
RenderChatStream ==
  /\ ~resolverRan \/ rawEntries # state.entries
  /\ rawEntries' = state.entries
  /\ resolved' = resolveEntries(state.entries)
  /\ resolverRan' = TRUE
  /\ UNCHANGED <<rvars, cvars, ovars, pvars>>

ComposeNext == ComposeReduce \/ RenderChatStream

SpecCompose == ReducerInit /\ [][ComposeNext]_vars

\* ------------------------------------------------------------------------
\* The resolver applied to bounded raw logs
\* ------------------------------------------------------------------------
SpecResolverInit ==
  /\ ReducerIdle /\ ResolverInit /\ ConnIdle /\ StatusIdle
  /\ socketCap = MaxSockets
  /\ frameCap = MaxFrames

SpecResolverNext == Resolve /\ UNCHANGED <<rvars, cvars, ovars, pvars>>

SpecResolver == SpecResolverInit /\ [][SpecResolverNext]_vars


\* ------------------------------------------------------------------------
\* Properties of the reducer (checked under SpecReducer)
\* ------------------------------------------------------------------------

\* C1: a snapshot keeps the two cumulative token counters of the previous
\* state, empties reasoningBuffer, and sets every other field to the
\* snapshot's value; nothing else of the previous state survives.
C1_SnapshotFullReplace ==
  lastMsg.type = "snapshot" =>
    LET s == lastMsg.data IN
      /\ state.totalPromptTokens = prevState.totalPromptTokens
      /\ state.totalCompletionTokens = prevState.totalCompletionTokens
      /\ state.reasoningBuffer = ""
      /\ state.phase = s.phase
      /\ state.round = s.round
      /\ state.maxRounds = s.max_rounds
      /\ state.contextPct = s.context_pct
      /\ state.model = s.model
      /\ state.cycle = s.cycle
      /\ state.entries = s.agent_output
      /\ state.streamingBuffer = s.streaming_buffer
      /\ state.logs = s.logs
      /\ state.running = s.running
      /\ state.nextCycleSecs = s.next_cycle_secs
      /\ state.activeQuestion = s.active_question
      /\ state.extension = s.extension

\* a snapshot arrives at a state with counted tokens, entries and a reasoning buffer
C1_Witness ==
  /\ lastMsg.type = "snapshot"
  /\ prevState.totalPromptTokens > 0
  /\ prevState.reasoningBuffer # ""
  /\ state.entries # prevState.entries

\* C2: a message whose discriminator is not a known type leaves the state
\* exactly as it was.
C2_UnknownIsNoOp ==
  lastMsg.type \notin (KnownTypes \cup {"none"}) => state = prevState

C2_Witness ==
  /\ lastMsg.type = "heartbeat"
  /\ state # INITIAL_STATE
  /\ state.entries # <<>>

\* C3 (as stated): in every reachable state, snapshots included, the entries
\* log holds at most one TodoUpdate entry.
C3_AtMostOneTodoAlways == TodoCount(state.entries) <= 1

\* C3 (amended): as long as every snapshot applied so far carried at most one
\* TodoUpdate entry, the entries log holds at most one TodoUpdate entry.
C3_AtMostOneTodo == snapshotsClean => TodoCount(state.entries) <= 1

\* a todo_update lands on a log installed by a snapshot that already holds one
C3_Witness ==
  /\ sawSnapshot /\ snapshotsClean
  /\ lastMsg.type = "todo_update"
  /\ TodoCount(prevState.entries) = 1
  /\ TodoCount(state.entries) = 1
  /\ state.entries # prevState.entries

\* C4: without a snapshot, once a todo_update has been applied to the
\* initially empty log there is exactly one TodoUpdate entry; it sits at the
\* index where the first todo_update was appended and carries the content of
\* the latest todo_update.
C4_TodoReplacedInPlace ==
  (~sawSnapshot /\ firstTodoAt # 0) =>
    /\ TodoCount(state.entries) = 1
    /\ firstTodoAt <= Len(state.entries)
    /\ state.entries[firstTodoAt] = TodoUpdateEntry(lastTodo)

\* todo_update, another entry, then a todo_update with other content
C4_Witness ==
  /\ ~sawSnapshot
  /\ firstTodoAt = 1
  /\ Len(state.entries) = 2
  /\ lastMsg.type = "todo_update"
  /\ prevState.entries[1] # state.entries[1]

\* C5: text_delta appends its delta to streamingBuffer and appends no entry,
\* so a run of deltas d1..dk leaves the buffer at the old buffer followed by
\* d1..dk in arrival order; text appends exactly one Text entry and empties
\* streamingBuffer.
C5_StreamingReassembly ==
  /\ lastMsg.type = "text_delta" =>
       /\ state.streamingBuffer = prevState.streamingBuffer \o lastMsg.delta
       /\ state.entries = prevState.entries
       /\ state.streamingBuffer = runBase \o deltaRun
  /\ lastMsg.type = "text" =>
       /\ state.entries = Append(prevState.entries, TextEntry(lastMsg.text))
       /\ state.streamingBuffer = ""

\* two deltas "a", "b" were reassembled and a text message then cleared them
C5_Witness ==
  /\ lastMsg.type = "text"
  /\ deltaRun = "ab"
  /\ prevState.streamingBuffer = "ab"
  /\ state.streamingBuffer = ""

\* C14: token_usage adds its two amounts to the two cumulative counters and
\* changes no other field; two token_usage{100, 20} in a row from the initial
\* state give 200 and 40.
C14_TokenUsageAdds ==
  lastMsg.type = "token_usage" =>
    /\ state = [prevState EXCEPT
                  !.totalPromptTokens = prevState.totalPromptTokens + lastMsg.prompt_tokens,
                  !.totalCompletionTokens =
                      prevState.totalCompletionTokens + lastMsg.completion_tokens]
    /\ (nmsgs = 2 /\ prevState = [INITIAL_STATE EXCEPT !.totalPromptTokens = 100,
                                                       !.totalCompletionTokens = 20])
         => (state.totalPromptTokens = 200 /\ state.totalCompletionTokens = 40)

\* the second of two token_usage{100, 20} applied from the initial state
C14_Witness ==
  /\ nmsgs = 2
  /\ lastMsg.type = "token_usage"
  /\ prevState.totalPromptTokens = 100
  /\ state.totalPromptTokens = 200
  /\ state.totalCompletionTokens = 40

\* C15: no message lowers totalPromptTokens or totalCompletionTokens, a
\* snapshot included; a message that is not token_usage leaves them as they
\* were.
C15_CountersMonotone ==
  lastMsg.type # "none" =>
    /\ state.totalPromptTokens >= prevState.totalPromptTokens
    /\ state.totalCompletionTokens >= prevState.totalCompletionTokens
    /\ lastMsg.type # "token_usage" =>
         /\ state.totalPromptTokens = prevState.totalPromptTokens
         /\ state.totalCompletionTokens = prevState.totalCompletionTokens

\* counted tokens survive a snapshot and a later token_usage adds to them
C15_Witness ==
  /\ sawSnapshot
  /\ nmsgs = 3
  /\ lastMsg.type = "token_usage"
  /\ state.totalPromptTokens = 200
  /\ state.totalCompletionTokens = 40

\* C20: the result of the reducer depends on the state and the message
\* alone: two calls with the same state and the same message give the same
\* state, whatever the wall clock reads.
C20_ReducerIsPure ==
  \A msg \in Messages : \A n1, n2 \in Clock :
    applyMessage(state, msg, n1) = applyMessage(state, msg, n2)

\* C21: a message other than snapshot keeps every entry of the previous log
\* at its index and never shortens the log; the only change to an existing
\* entry is a todo_update rewriting one TodoUpdate entry at its index, and
\* then nothing is appended.
C21_EntriesAppendOnly ==
  lastMsg.type \notin {"none", "snapshot"} =>
    LET old == prevState.entries
        new == state.entries
        changed == {i \in 1..Len(old) : i > Len(new) \/ new[i] # old[i]}
    IN
    /\ Len(new) >= Len(old)
    /\ \/ changed = {}
       \/ /\ lastMsg.type = "todo_update"
          /\ Cardinality(changed) = 1
          /\ Len(new) = Len(old)
          /\ \A i \in changed : /\ DOMAIN old[i] = {"TodoUpdate"}
                                 /\ new[i] = TodoUpdateEntry(lastMsg.content)

\* a todo_update rewrote the TodoUpdate entry that a snapshot had put at
\* index 2, behind another entry
C21_Witness ==
  /\ lastMsg.type = "todo_update"
  /\ prevState.entries = <<UserMessageEntry("hi"), TodoUpdateEntry("t0")>>
  /\ state.entries = <<UserMessageEntry("hi"), TodoUpdateEntry(lastMsg.content)>>

SyntheticTypes ==
  { "eviction", "compaction", "checkpoint_saved", "checkpoint_resumed", "empty_response",
    "approval_required" }

\* The frame of the six synthetic-log messages, with levelOfSaved the level
\* of the line that checkpoint_saved logs: exactly one line is appended to
\* logs, at level Warn for empty_response, levelOfSaved for checkpoint_saved
\* and Info for the others; phase becomes "Retrying (attempt/max_retries)"
\* for empty_response and is unchanged for the others; entries and every
\* other field are unchanged.
SyntheticLogFrame(levelOfSaved) ==
  lastMsg.type \in SyntheticTypes =>
    LET n == Len(prevState.logs)
        line == state.logs[n + 1]
    IN
    /\ Len(state.logs) = n + 1
    /\ SubSeq(state.logs, 1, n) = prevState.logs
    /\ DOMAIN line = {"time", "level", "message"}
    /\ line.level = CASE lastMsg.type = "empty_response" -> "Warn"
                       [] lastMsg.type = "checkpoint_saved" -> levelOfSaved
                       [] OTHER -> "Info"
    /\ state.entries = prevState.entries
    /\ state.phase = IF lastMsg.type = "empty_response"
                       THEN "Retrying (" \o ToString(lastMsg.attempt) \o "/"
                              \o ToString(lastMsg.max_retries) \o ")"
                       ELSE prevState.phase
    /\ state = [prevState EXCEPT !.logs = state.logs, !.phase = state.phase]

\* C24 (as stated): the line of every routine event, checkpoint_saved
\* included, has level Info.
C24_SyntheticLogsAllInfo == SyntheticLogFrame("Info")

\* C24 (amended): the line has level Info for eviction, compaction,
\* checkpoint_resumed and approval_required, Debug for checkpoint_saved and
\* Warn for empty_response.
C24_SyntheticLogs == SyntheticLogFrame("Debug")

\* an empty_response was logged right after a checkpoint_saved
C24_Witness ==
  /\ lastMsg.type = "empty_response"
  /\ state.phase = "Retrying (1/3)"
  /\ Len(state.logs) = 2
  /\ state.logs[1].level = "Debug"
  /\ state.logs[1].message = "Checkpoint saved at round 3: /tmp/ck"
  /\ state.logs[2].level = "Warn"

\* The frame of finished: running false, phase "Finished", nothing else
FinishedFrame ==
  lastMsg.type = "finished" =>
    state = [prevState EXCEPT !.running = FALSE, !.phase = "Finished"]

\* C26 (as stated): running is true as long as no finished message has been
\* received, and finished changes running and phase only.
C26_RunningUntilFinishedOnly ==
  /\ ~sawFinished => state.running
  /\ FinishedFrame

\* C26 (amended): running is true as long as neither a finished message nor
\* a snapshot has been received; finished changes running and phase only; a
\* snapshot sets running to the value it carries; no other message changes
\* running.
C26_RunningUntilFinished ==
  /\ (~sawFinished /\ ~sawSnapshot) => state.running
  /\ FinishedFrame
  /\ lastMsg.type = "snapshot" => state.running = lastMsg.data.running
  /\ lastMsg.type \notin {"none", "finished", "snapshot"} =>
       state.running = prevState.running

\* finished arrives at a running session that has entries, logs, a buffer,
\* an outstanding question and counted tokens
C26_Witness ==
  /\ lastMsg.type = "finished"
  /\ prevState.running /\ ~state.running
  /\ state.phase = "Finished"
  /\ state.entries # <<>> /\ state.logs # <<>> /\ state.streamingBuffer # ""
  /\ state.activeQuestion # Null
  /\ state.totalPromptTokens > 0

\* C27: question sets activeQuestion to {question, remaining_secs: null,
\* done: false}, whatever it was; question_dismissed sets it to null; neither
\* changes another field; activeQuestion never holds more than one question.
C27_QuestionFrame ==
  /\ Len(state.activeQuestion) <= 1
  /\ lastMsg.type = "question" =>
       state = [prevState EXCEPT !.activeQuestion =
                  <<[question |-> lastMsg.question, remaining_secs |-> <<>>, done |-> FALSE]>>]
  /\ lastMsg.type = "question_dismissed" =>
       state = [prevState EXCEPT !.activeQuestion = <<>>]

\* a question replaced the outstanding one (which a snapshot had installed
\* with 5 seconds remaining)
C27_Witness ==
  /\ lastMsg.type = "question"
  /\ prevState.activeQuestion # Null
  /\ prevState.activeQuestion[1].remaining_secs = Some(5)
  /\ state.activeQuestion[1].remaining_secs = Null

\* C29: round changes round, maxRounds and contextPct only; phase changes
\* phase only; model_routed model only; tool_calls_received phase only, to
\* "<count> tool call(s)"; extension sets extension to the mapping received,
\* keeping nothing of the old one; log appends its line to logs.  Each leaves
\* every other field as it was.
C29_FieldOnlyFrames ==
  /\ lastMsg.type = "round" =>
       state = [prevState EXCEPT !.round = lastMsg.round,
                                 !.maxRounds = lastMsg.max_rounds,
                                 !.contextPct = lastMsg.context_pct]
  /\ lastMsg.type = "phase" => state = [prevState EXCEPT !.phase = lastMsg.phase]
  /\ lastMsg.type = "model_routed" => state = [prevState EXCEPT !.model = lastMsg.model]
  /\ lastMsg.type = "tool_calls_received" =>
       state = [prevState EXCEPT !.phase = ToString(lastMsg.count) \o " tool call(s)"]
  /\ lastMsg.type = "extension" =>
       state = [prevState EXCEPT !.extension = <<lastMsg.data>>]
  /\ lastMsg.type = "log" =>
       state = [prevState EXCEPT !.logs = Append(prevState.logs, lastMsg.line)]

\* an extension {j: v2} replaced the extension {k: v1} of a snapshot
C29_Witness ==
  /\ lastMsg.type = "extension"
  /\ prevState.extension = <<[k |-> "v1"]>>
  /\ state.extension = <<[j |-> "v2"]>>

\* C30: text_delta appends to streamingBuffer and text empties it, neither
\* touching reasoningBuffer; reasoning_delta appends to reasoningBuffer and
\* reasoning empties it, neither touching streamingBuffer; every other
\* message except snapshot leaves both buffers as they were.
C30_BuffersIndependent ==
  /\ lastMsg.type \in {"text_delta", "text"} =>
       state.reasoningBuffer = prevState.reasoningBuffer
  /\ lastMsg.type \in {"reasoning_delta", "reasoning"} =>
       state.streamingBuffer = prevState.streamingBuffer
  /\ lastMsg.type = "text_delta" =>
       state.streamingBuffer = prevState.streamingBuffer \o lastMsg.delta
  /\ lastMsg.type = "reasoning_delta" =>
       state.reasoningBuffer = prevState.reasoningBuffer \o lastMsg.delta
  /\ lastMsg.type = "text" => state.streamingBuffer = ""
  /\ lastMsg.type = "reasoning" => state.reasoningBuffer = ""
  /\ lastMsg.type \notin {"none", "snapshot", "text_delta", "text", "reasoning_delta",
                           "reasoning"} =>
       /\ state.streamingBuffer = prevState.streamingBuffer
       /\ state.reasoningBuffer = prevState.reasoningBuffer

\* with both buffers filled, a complete reasoning emptied its own buffer only
C30_Witness ==
  /\ lastMsg.type = "reasoning"
  /\ prevState.streamingBuffer # "" /\ prevState.reasoningBuffer # ""
  /\ state.streamingBuffer = prevState.streamingBuffer
  /\ state.reasoningBuffer = ""

\* ------------------------------------------------------------------------
\* Properties of the resolver (checked under SpecResolver)
\* ------------------------------------------------------------------------

\* The resolved entry the pairing rule prescribes for raw index i, as a
\* sequence of length 0 or 1: a ToolExecuting is completed exactly when the
\* raw entry right after it is a ToolResult of the same name; a ToolResult is
\* an orphan exactly when the raw entry right before it is not a
\* ToolExecuting of the same name, and is otherwise absorbed by that entry.
Prescribed(log, i) ==
  LET e == log[i]
      hasNext == i < Len(log)
      hasPrev == i > 1
  IN
  CASE DOMAIN e = {"ToolExecuting"} ->
         IF hasNext /\ DOMAIN log[i + 1] = {"ToolResult"}
                    /\ log[i + 1].ToolResult.name = e.ToolExecuting.name
           THEN <<[type |-> "tool", name |-> e.ToolExecuting.name,
                   arguments |-> e.ToolExecuting.arguments,
                   result |-> Some(log[i + 1].ToolResult.result),
                   isError |-> Some(log[i + 1].ToolResult.is_error)]>>
           ELSE <<[type |-> "tool", name |-> e.ToolExecuting.name,
                   arguments |-> e.ToolExecuting.arguments,
                   result |-> Undefined, isError |-> Undefined]>>
    [] DOMAIN e = {"ToolResult"} ->
         IF hasPrev /\ DOMAIN log[i - 1] = {"ToolExecuting"}
                    /\ log[i - 1].ToolExecuting.name = e.ToolResult.name
           THEN <<>>
           ELSE <<[type |-> "orphan_result", name |-> e.ToolResult.name,
                   result |-> e.ToolResult.result, isError |-> e.ToolResult.is_error]>>
    [] DOMAIN e = {"Text"} -> <<[type |-> "text", text |-> e.Text]>>
    [] DOMAIN e = {"UserMessage"} -> <<[type |-> "user", message |-> e.UserMessage]>>
    [] DOMAIN e = {"TodoUpdate"} -> <<[type |-> "todo", content |-> e.TodoUpdate]>>

RECURSIVE PrescribedUpTo(_, _)
PrescribedUpTo(log, n) ==
  IF n = 0 THEN <<>> ELSE PrescribedUpTo(log, n - 1) \o Prescribed(log, n)

\* C6: pairing is positional and by exact name.  The resolved list is, index
\* by index, what the pairing rule prescribes; in particular
\* [ToolExecuting(A), ToolResult(A)] gives one completed tool entry and
\* [ToolExecuting(A), Text(x), ToolResult(A)] gives a pending tool entry for
\* A, a text entry and an orphan_result for A.
C6_PairingAdjacency ==
  resolverRan =>
    /\ resolved = PrescribedUpTo(rawEntries, Len(rawEntries))
    /\ rawEntries = <<ToolExecutingEntry("A", "{}"), ToolResultEntry("A", "3 matches", FALSE)>>
         => resolved = <<[type |-> "tool", name |-> "A", arguments |-> "{}",
                          result |-> Some("3 matches"), isError |-> Some(FALSE)]>>
    /\ rawEntries = <<ToolExecutingEntry("A", "{}"), TextEntry("x"),
                      ToolResultEntry("A", "3 matches", FALSE)>>
         => resolved = <<[type |-> "tool", name |-> "A", arguments |-> "{}",
                          result |-> Undefined, isError |-> Undefined],
                         [type |-> "text", text |-> "x"],
                         [type |-> "orphan_result", name |-> "A",
                          result |-> "3 matches", isError |-> FALSE]>>

\* the separated pair of the example has been resolved
C6_Witness ==
  /\ resolverRan
  /\ rawEntries = <<ToolExecutingEntry("A", "{}"), TextEntry("x"),
                    ToolResultEntry("A", "3 matches", FALSE)>>
  /\ Len(resolved) = 3

\* C16 (SpecCompose): when the chat stream has rendered the current entries,
\* (a) after round{3,10,0.42}, tool_executing{grep}, tool_result{grep,
\* "3 matches", false} from the initial state, round is 3, contextPct is 0.42
\* and the resolved list is exactly one tool entry named grep with result
\* "3 matches" and isError false; (b) whenever a tool_result{A} arrives while
\* the last entry is ToolExecuting A, the pair resolves to one completed tool
\* entry: the resolved list ends with it and is no longer than before the
\* result, so no orphan_result was added.
C16_ReducerResolverCompose ==
  (resolverRan /\ rawEntries = state.entries /\ lastMsg.type = "tool_result") =>
    /\ (nmsgs = 3 /\ lastMsg.name = "grep"
          /\ prevState = [INITIAL_STATE EXCEPT
                            !.round = 3, !.maxRounds = 10, !.contextPct = 42,
                            !.phase = "Tool: grep",
                            !.entries = <<ToolExecutingEntry("grep", "{}")>>])
         => /\ state.round = 3
            /\ state.contextPct = 42
            /\ resolved = <<[type |-> "tool", name |-> "grep", arguments |-> "{}",
                             result |-> Some("3 matches"), isError |-> Some(FALSE)]>>
    /\ (prevState.entries # <<>>
          /\ DOMAIN prevState.entries[Len(prevState.entries)] = {"ToolExecuting"}
          /\ prevState.entries[Len(prevState.entries)].ToolExecuting.name = lastMsg.name)
         => /\ resolved # <<>>
            /\ resolved[Len(resolved)].type = "tool"
            /\ resolved[Len(resolved)].name = lastMsg.name
            /\ resolved[Len(resolved)].result = Some(lastMsg.result)
            /\ resolved[Len(resolved)].isError = Some(lastMsg.is_error)
            /\ Len(resolved) = Len(PrescribedUpTo(prevState.entries, Len(prevState.entries)))

\* the three messages of the example were applied and rendered
C16_Witness ==
  /\ resolverRan /\ rawEntries = state.entries
  /\ nmsgs = 3
  /\ lastMsg = [type |-> "tool_result", name |-> "grep", result |-> "3 matches",
                is_error |-> FALSE]
  /\ state.round = 3
  /\ state.entries = <<ToolExecutingEntry("grep", "{}"),
                       ToolResultEntry("grep", "3 matches", FALSE)>>
  /\ Len(resolved) = 1

\* Raw index i holds a ToolResult right behind a ToolExecuting of its name
PairedResult(log, i) ==
  /\ DOMAIN log[i] = {"ToolResult"}
  /\ i > 1
  /\ DOMAIN log[i - 1] = {"ToolExecuting"}
  /\ log[i - 1].ToolExecuting.name = log[i].ToolResult.name

\* The raw indexes that are not paired results, in increasing order
KeptIndexes(log) ==
  SelectSeq([i \in 1..Len(log) |-> i], LAMBDA i : ~PairedResult(log, i))

\* Resolved entries that show the ToolResult at raw index i: the tool entry
\* of the raw entry before it, or an orphan_result of its own
ShownBy(log, kept, res, i) ==
  {k \in 1..Len(res) :
     \/ /\ res[k].type = "orphan_result" /\ kept[k] = i
     \/ /\ res[k].type = "tool" /\ kept[k] = i - 1
        /\ res[k].result = Some(log[i].ToolResult.result)
        /\ res[k].isError = Some(log[i].ToolResult.is_error)}

\* C25 (SpecResolver): the resolved list has one entry for every raw entry
\* that is not a paired result, in raw order and of the kind of that raw
\* entry; a ToolResult becomes an orphan_result exactly when it is not a
\* paired result; every ToolResult is shown by exactly one resolved entry;
\* the resolved length is the raw length minus the number of paired results.
C25_ResolverAccounting ==
  resolverRan =>
    LET kept == KeptIndexes(rawEntries)
        paired == {i \in 1..Len(rawEntries) : PairedResult(rawEntries, i)}
    IN
    /\ Len(resolved) = Len(rawEntries) - Cardinality(paired)
    /\ Len(resolved) = Len(kept)
    /\ \A k \in 1..Len(resolved) :
         resolved[k].type =
           CASE DOMAIN rawEntries[kept[k]] = {"UserMessage"} -> "user"
             [] DOMAIN rawEntries[kept[k]] = {"Text"} -> "text"
             [] DOMAIN rawEntries[kept[k]] = {"ToolExecuting"} -> "tool"
             [] DOMAIN rawEntries[kept[k]] = {"ToolResult"} -> "orphan_result"
             [] DOMAIN rawEntries[kept[k]] = {"TodoUpdate"} -> "todo"
    /\ \A i \in 1..Len(rawEntries) :
         DOMAIN rawEntries[i] = {"ToolResult"} =>
           Cardinality(ShownBy(rawEntries, kept, resolved, i)) = 1

\* a paired result followed by a second result of the same name, which has
\* no ToolExecuting right before it and so is an orphan
C25_Witness ==
  /\ resolverRan
  /\ Len(rawEntries) = 3
  /\ PairedResult(rawEntries, 2)
  /\ DOMAIN rawEntries[3] = {"ToolResult"}
  /\ Len(resolved) = 2
  /\ resolved[2].type = "orphan_result"

\* ------------------------------------------------------------------------
\* Properties of the reducer and the resolver together (SpecCompose)
\* ------------------------------------------------------------------------

\* C23: reasoning{text} appends ToolExecuting("think", {"reasoning": text})
\* and right behind it ToolResult("think", "ok", false), empties
\* reasoningBuffer and changes nothing else (streamingBuffer and phase
\* included); when the chat stream has rendered the current entries, each
\* such pair is one tool entry named think with result "ok" and isError
\* false, and no orphan_result is named think.
C23_ReasoningPair ==
  /\ lastMsg.type = "reasoning" =>
       state = [prevState EXCEPT
                  !.entries = prevState.entries \o
                     << [ToolExecuting |-> [name |-> "think",
                           arguments |-> "{\"reasoning\":\"" \o lastMsg.text \o "\"}"]],
                        [ToolResult |-> [name |-> "think", result |-> "ok",
                                         is_error |-> FALSE]] >>,
                  !.reasoningBuffer = ""]
  /\ (resolverRan /\ rawEntries = state.entries) =>
       /\ \A k \in 1..Len(resolved) :
            resolved[k].type = "orphan_result" => resolved[k].name # "think"
       /\ \A k \in 1..Len(resolved) :
            (resolved[k].type = "tool" /\ resolved[k].name = "think") =>
              (resolved[k].result = Some("ok") /\ resolved[k].isError = Some(FALSE))
       /\ Cardinality({k \in 1..Len(resolved) :
                         resolved[k].type = "tool" /\ resolved[k].name = "think"})
            = Cardinality({i \in 1..Len(rawEntries) :
                             /\ DOMAIN rawEntries[i] = {"ToolResult"}
                             /\ rawEntries[i].ToolResult.name = "think"})

\* with both buffers filled a reasoning arrived and was rendered
C23_Witness ==
  /\ lastMsg.type = "reasoning"
  /\ prevState.reasoningBuffer = "r" /\ prevState.streamingBuffer = "a"
  /\ state.reasoningBuffer = "" /\ state.streamingBuffer = "a"
  /\ resolverRan /\ rawEntries = state.entries
  /\ Len(resolved) = 1 /\ resolved[1].name = "think"

\* C28: tool_cache_hit{name, arguments} appends one ToolExecuting entry
\* named "<name> (cached)" with the arguments given and changes nothing else
\* (no ToolResult, phase unchanged); rendered right after the message, it is
\* the last resolved entry, a tool entry with result undefined.
C28_CacheHitFrame ==
  lastMsg.type = "tool_cache_hit" =>
    /\ state = [prevState EXCEPT
                  !.entries = Append(prevState.entries,
                     [ToolExecuting |-> [name |-> lastMsg.name \o " (cached)",
                                         arguments |-> lastMsg.arguments]])]
    /\ (resolverRan /\ rawEntries = state.entries) =>
         /\ resolved # <<>>
         /\ resolved[Len(resolved)] =
              [type |-> "tool", name |-> lastMsg.name \o " (cached)",
               arguments |-> lastMsg.arguments, result |-> Undefined, isError |-> Undefined]

\* a cache hit for grep behind a tool_executing for grep, rendered
C28_Witness ==
  /\ lastMsg.type = "tool_cache_hit"
  /\ resolverRan /\ rawEntries = state.entries
  /\ Len(state.entries) = 2
  /\ state.phase = "Tool: grep"
  /\ Len(resolved) = 2
  /\ resolved[2].name = "grep (cached)"

\* What the resolver shows for the tool_result that arrived last
ShownLast == LET res == resolveEntries(state.entries) IN res[Len(res)]

ResultCompletesTool ==
  /\ ShownLast = [type |-> "tool", name |-> lastMsg.name, arguments |-> "{}",
                  result |-> Some(lastMsg.result), isError |-> Some(lastMsg.is_error)]
  /\ Len(resolveEntries(state.entries)) = Len(resolveEntries(prevState.entries))

ResultIsOrphan ==
  /\ ShownLast = [type |-> "orphan_result", name |-> lastMsg.name,
                  result |-> lastMsg.result, isError |-> lastMsg.is_error]
  /\ Len(resolveEntries(state.entries)) = Len(resolveEntries(prevState.entries)) + 1

\* C37 as stated (SpecPairing): a tool_result{A} separated from a
\* tool_executing{A} only by messages that append no entry completes one
\* tool entry; separated from a tool_executing{A} by any message that
\* appends an entry, another tool_executing{A} included, it is an
\* orphan_result.
C37_AnyAppendOrphans ==
  lastMsg.type = "tool_result" =>
    /\ pairing.verdict = "clean" => ResultCompletesTool
    /\ pairing.verdict = "appended" => ResultIsOrphan
    /\ pairing.repeated => ResultIsOrphan

\* C37 amended (SpecPairing): a tool_result{A} separated from the latest
\* tool_executing{A} only by messages that append no entry completes that
\* tool entry, adding no resolved entry; if a message that appends an
\* entry has arrived since the latest tool_executing{A}, it is an
\* orphan_result.  (A later tool_executing{A} is the latest one: the result
\* completes it and the earlier one stays without result.)
C37_PairingAcrossGaps ==
  lastMsg.type = "tool_result" =>
    /\ pairing.verdict = "clean" => ResultCompletesTool
    /\ pairing.verdict = "appended" => ResultIsOrphan

\* in a session whose log holds a TodoUpdate: tool_executing{A}, a
\* todo_update that replaces it, tool_result{A}: one completed tool entry
C37_Witness ==
  /\ lastMsg.type = "tool_result" /\ lastMsg.name = "A"
  /\ pairing.verdict = "clean"
  /\ nmsgs = 3
  /\ prevState.entries = <<[TodoUpdate |-> "t2"], [ToolExecuting |-> [name |-> "A", arguments |-> "{}"]]>>
  /\ Len(resolveEntries(state.entries)) = 2
  /\ ShownLast.type = "tool" /\ ShownLast.result = Some("3 matches")

\* ------------------------------------------------------------------------
\* Properties of the connection manager
\* ------------------------------------------------------------------------
RECURSIVE Pow2(_)
Pow2(n) == IF n = 0 THEN 1 ELSE 2 * Pow2(n - 1)

\* C7 (SpecManager): the reconnection scheduled by the (n+1)-th close in a
\* row since the latest successful open (or since the start) has delay
\* min(1000 * 2^n, 16000) ms: 1000 ms for the first, never more than 16000 ms,
\* and 1000 ms again for the first one after an open.
C7_BackoffBounds ==
  /\ lastDelay <= 16000
  /\ failures >= 1 =>
       lastDelay = Min(1000 * Pow2(failures - 1), 16000)

\* six closes in a row: the sixth delay is where the ceiling cuts 32000 down
C7_Witness == failures = 6 /\ lastDelay = 16000

\* C38 as stated (SpecManager): after every close that schedules a
\* reconnection the stored delay is twice the delay just used, cut to
\* 16000 ms, so the stored delay always lies between 1000 and 16000 ms.
C38_StoredDelayWithinCeiling ==
  /\ retryDelayRef \in INITIAL_RETRY_DELAY..MAX_RETRY_DELAY
  /\ failures >= 1 => retryDelayRef = Min(2 * lastDelay, MAX_RETRY_DELAY)

\* C38 amended (SpecManager): after every close that schedules a
\* reconnection the stored delay is twice the delay just used, where the
\* delay used is the stored one cut to 16000 ms; the stored delay lies
\* between 1000 and 32000 ms, the delay used between 1000 and 16000 ms, and
\* after an open event the stored delay is 1000 ms.
C38_StoredDelay ==
  /\ retryDelayRef \in INITIAL_RETRY_DELAY..(2 * MAX_RETRY_DELAY)
  /\ failures = 0 => retryDelayRef = INITIAL_RETRY_DELAY
  /\ failures >= 1 =>
       /\ retryDelayRef = 2 * lastDelay
       /\ lastDelay \in INITIAL_RETRY_DELAY..MAX_RETRY_DELAY

\* the sixth close in a row: 16000 ms used for the second time, 32000 stored
C38_Witness ==
  /\ failures = 6
  /\ lastDelay = MAX_RETRY_DELAY
  /\ retryDelayRef = 2 * MAX_RETRY_DELAY

\* Sockets of run r that are connecting or open
LiveSockets(r) ==
  {id \in 1..Len(socks) : socks[id].run = r /\ socks[id].readyState \in {"CONNECTING", "OPEN"}}

ReconnectPending(r) ==
  /\ r <= Len(cancelled)
  /\ ~cancelled[r]
  /\ timeoutPending[r]
  /\ Len(socks) < socketCap

AttemptMadeOrTornDown(r) ==
  /\ r <= Len(cancelled)
  /\ \/ cancelled[r]
     \/ \E id \in 1..Len(socks) : socks[id].run = r /\ socks[id].readyState = "CONNECTING"

\* C19 (SpecManagerFair): every close event leaves the published connected
\* flag false; a run of the manager that is not torn down has at any time
\* either one socket connecting or open, or exactly one reconnection pending
\* (after every close, however many in a row, and never both); and a pending
\* reconnection leads to a new connection attempt unless the run is torn
\* down first.
C19_CloseLeadsToReconnect ==
  /\ [](closeMarked /\
        \A r \in 1..Len(cancelled) :
          ~cancelled[r] =>
            Cardinality(LiveSockets(r)) + (IF timeoutPending[r] THEN 1 ELSE 0) = 1)
  /\ \A r \in 1..MaxRuns : ReconnectPending(r) ~> AttemptMadeOrTornDown(r)

\* the fifth attempt in a row has just been made after four closes
C19_Witness ==
  /\ mounted = "mounted"
  /\ failures = 4
  /\ Len(socks) = 5
  /\ socks[5].readyState = "CONNECTING"
  /\ ~connected

\* C31 (SpecManager): in the lifetime of a manager that has been set up once
\* and not torn down, the published connected flag is true exactly while a
\* socket is between its open event and its close event: false before the
\* set-up, while a socket is connecting and while a retry is pending; and
\* while it is true the stored reconnect delay is the 1000 ms the open event
\* reset it to.
C31_ConnectedWhileOpen ==
  (CurrentRun <= 1 /\ mounted # "unmounted") =>
    /\ connected <=> \E id \in 1..Len(socks) : socks[id].readyState = "OPEN"
    /\ connected => retryDelayRef = INITIAL_RETRY_DELAY
    /\ (mounted = "rendered" \/ timeoutPending[1]) => ~connected

\* an open connection was lost, two retries failed, and the fourth socket
\* has opened: the flag is up again and the delay is back at 1000 ms
C31_Witness ==
  /\ CurrentRun = 1 /\ mounted = "mounted"
  /\ everLost
  /\ Len(socks) = 4
  /\ socks[4].readyState = "OPEN"
  /\ lastDelay = 4000
  /\ connected
  /\ retryDelayRef = INITIAL_RETRY_DELAY

\* Sockets of run r whose close event has not happened yet
UnclosedSockets(r) ==
  {id \in 1..Len(socks) : socks[id].run = r /\ socks[id].readyState # "CLOSED"}

\* C34 (SpecManager): in each lifetime of the manager (each run of the
\* effect) there is at any time at most one socket that has not yet closed
\* and at most one pending reconnect timer, and never both; a reconnection
\* is scheduled only when none is pending; and a socket is created only by
\* the set-up of a lifetime or by the pending timer of its lifetime firing
\* when every earlier socket of that lifetime has closed.
C34_OneSocketOrOneTimer ==
  /\ [](\A r \in 1..Len(cancelled) :
          Cardinality(UnclosedSockets(r)) + (IF timeoutPending[r] THEN 1 ELSE 0) <= 1)
  /\ [][failures' = failures + 1 =>
          \E r \in 1..Len(cancelled) : ~timeoutPending[r] /\ timeoutPending'[r]]_vars
  /\ [][Len(socks') # Len(socks) =>
          /\ Len(socks') = Len(socks) + 1
          /\ LET r == socks'[Len(socks')].run IN
             \/ r = CurrentRun + 1 /\ Len(cancelled') = r
             \/ /\ r <= CurrentRun
                /\ timeoutPending[r] /\ ~timeoutPending'[r]
                /\ UnclosedSockets(r) = {}
                /\ \E id \in 1..Len(socks) : socks[id].run = r]_vars

\* the first lifetime was torn down with its socket still closing, and the
\* second lifetime has lost its socket and waits for its second retry
C34_Witness ==
  /\ mounted = "mounted"
  /\ CurrentRun = 2
  /\ socks[1].readyState = "CLOSING"
  /\ Len(socks) = 3
  /\ UnclosedSockets(2) = {}
  /\ timeoutPending[2]
  /\ lastDelay = 2000

\* C35 (SpecManager): while the socket of the current lifetime is open, the
\* connected flag is true and wsRef names that socket (so a command called
\* now is transmitted), whatever close events of sockets of torn-down
\* lifetimes have arrived in the meantime.
C35_LateCloseHarmless ==
  \A id \in 1..Len(socks) :
    (/\ mounted = "mounted"
     /\ socks[id].run = CurrentRun
     /\ socks[id].readyState = "OPEN") =>
      (connected /\ wsRef = id)

\* C10 (SpecManager): once a run of the manager is torn down, it has no
\* pending reconnect timer, each of its sockets is closing or closed, and it
\* creates no further socket.
C10_TeardownIsFinal ==
  \A r \in 1..Len(cancelled) :
    cancelled[r] =>
      /\ ~timeoutPending[r]
      /\ \A id \in 1..Len(socks) :
           socks[id].run = r => socks[id].readyState \in {"CLOSING", "CLOSED"}

\* C9 (SpecSession): the frames transmitted are exactly the commands called
\* while the connection was open, one frame for each, in call order; a
\* command called while it was not open is never transmitted.
C9_SendIffOpen ==
  /\ Len(sent) = Len(expectedSent)
  /\ \A i \in 1..Len(sent) : sent[i].type = expectedSent[i]

\* ------------------------------------------------------------------------
\* Properties of the connection-status presentation
\* ------------------------------------------------------------------------

\* C17 (SpecStatus): when the component sees the connection regained, the
\* phase becomes `reconnected`; from there the only moves while it stays up
\* are to `exiting` at 2000 ms and to `hidden` at 2350 ms (350 ms later), in
\* that order, and the timer of each move still to come is pending.
C17_ReconnectSequence ==
  LET full == << [phase |-> "reconnected", at |-> 0],
                 [phase |-> "exiting", at |-> 2000],
                 [phase |-> "hidden", at |-> 2000 + 350] >>
  IN
  /\ Len(phaseTrail) <= 3
  /\ phaseTrail = SubSeq(full, 1, Len(phaseTrail))
  /\ mounted = "mounted" =>
       /\ seenConnected <=> phaseTrail # <<>>
       /\ phaseTrail # <<>> => phaseRef = phaseTrail[Len(phaseTrail)].phase
       /\ Len(phaseTrail) = 1 => (timer /\ exitTimer)
       /\ Len(phaseTrail) = 2 => (~timer /\ exitTimer)
       /\ Len(phaseTrail) = 3 => (~timer /\ ~exitTimer)

\* a regained connection stayed up until the announcement was hidden again
C17_Witness ==
  /\ mounted = "mounted"
  /\ everLost
  /\ connected /\ seenConnected
  /\ Len(phaseTrail) = 3
  /\ phaseRef = "hidden"

\* C18 (SpecStatus): once the component has seen connected = false, the
\* phase is `disconnected`, whichever phase it was in, and no timer of an
\* earlier announcement is left to change it.
C18_LossShowsDisconnected ==
  (mounted = "mounted" /\ ~seenConnected) =>
    /\ phaseRef = "disconnected"
    /\ ~timer /\ ~exitTimer

\* losses were seen in each of the phases hidden, reconnected and exiting
C18_Witness ==
  /\ mounted = "mounted" /\ ~seenConnected
  /\ lostFrom = {"hidden", "reconnected", "exiting"}
  /\ phaseRef = "disconnected"

\* C36 (SpecStatus): for the connected value the component has rendered
\* with: while it is false the phase is `disconnected` and no timer of an
\* earlier announcement is pending that could move it to `exiting` or
\* `hidden`; while it is true the phase is not `disconnected`.
C36_PhaseFollowsConnection ==
  mounted = "mounted" =>
    /\ phaseRef = "disconnected" <=> ~seenConnected
    /\ (timer \/ exitTimer) => seenConnected

\* the connection was lost during an announcement, with both timers pending,
\* and during the next one, with the exit timer pending; it is down now
C36_Witness ==
  /\ mounted = "mounted"
  /\ {"reconnected", "exiting"} \subseteq lostFrom
  /\ ~connected /\ ~seenConnected
  /\ phaseRef = "disconnected"
  /\ ~timer /\ ~exitTimer
  /\ failures = 1

\* C8 (SpecStatus): the phase is `reconnected` only after an established
\* connection has been lost; the first successful connect after mount does
\* not announce.
C8_NoAnnouncementOnFirstConnect == phaseRef = "reconnected" => everLost


\* ------------------------------------------------------------------------
\* Properties of the session (manager, frames and commands)
\* ------------------------------------------------------------------------

\* C11 (SpecManager): after the teardown of a run of the manager, no open,
\* message or close callback of a socket of that run changes the published
\* Session State or the published connected flag.
C11_NoPublicationAfterTeardown == ~latePublished

\* C32 (SpecAnswer): sendAnswer called while the connection is not open
\* transmits nothing and leaves activeQuestion as it was, so a question that
\* was outstanding is still outstanding.
C32_AnswerDroppedKeepsQuestion ==
  (lastCall.cmd = "answer" /\ ~lastCall.connOpen) =>
    /\ lastCall.sentAfter = lastCall.sentBefore
    /\ lastCall.questionAfter = lastCall.questionBefore

\* a question arrived, the connection was lost, the answer was called and
\* dropped, and the connection is open again with the question still there
C32_Witness ==
  /\ lastCall.cmd = "answer" /\ ~lastCall.connOpen
  /\ lastCall.questionBefore # Null
  /\ sent = <<>>
  /\ state.activeQuestion = lastCall.questionBefore
  /\ Len(socks) = 2 /\ socks[2].readyState = "OPEN"
  /\ ConnectionOpen /\ RefIsOpen

\* C12 (SpecSession): once an answer to the outstanding question has been
\* transmitted, activeQuestion is null.
C12_AnswerClearsQuestion == answered => state.activeQuestion = Null

\* C33 (SpecFold): a step that applies no inbound message (an open, close
\* or error event of a socket, the reconnect timer, a set-up or teardown of
\* the manager) leaves the Session State as it was.
C33_ConnectionEventsKeepState == [][nmsgs' = nmsgs => state' = state]_vars

\* a text was received, the connection was lost and regained, and the
\* Session State still holds the text while no further message has arrived
C33_Witness ==
  /\ mounted = "mounted"
  /\ nmsgs = 1 /\ lastMsg.type = "text"
  /\ state.entries = <<[Text |-> "x"]>>
  /\ Len(socks) = 2
  /\ socks[1].readyState = "CLOSED" /\ socks[2].readyState = "OPEN"
  /\ everLost /\ connected

RECURSIVE FoldFrames(_, _)
FoldFrames(s, frames) ==
  IF frames = <<>> THEN s
  ELSE FoldFrames(applyMessage(s, Head(frames).msg, Head(frames).now), Tail(frames))

\* C22 (SpecFold): while the page is mounted, the published Session State is
\* the left fold of the reducer, from the initial state, over the messages
\* delivered so far in their arrival order, each applied once, whichever
\* socket delivered them.
C22_StateIsFoldOfFrames ==
  mounted = "mounted" => state = FoldFrames(INITIAL_STATE, delivered)

\* a text arrived over the first socket and, after a reconnect, a snapshot
\* over the second
C22_Witness ==
  /\ mounted = "mounted"
  /\ Len(delivered) = 2
  /\ delivered[1].via = 1 /\ delivered[1].msg.type = "text"
  /\ delivered[2].via = 2 /\ delivered[2].msg.type = "snapshot"
  /\ state.entries = SnapshotOneTodo.agent_output

\* C13 (SpecFrames): a frame that is not valid JSON, or is JSON but not a
\* message of the protocol, is discarded: no exception escapes and the
\* Session State is the one before the frame.
C13_MalformedFrameDiscarded ==
  /\ ~renderThrew
  /\ lastMsg.type = "frame" => state = prevState

=============================================================================
